---- MODULE Spec2Model ----
(***************************************************************************)
(* A model of the go-ap/storage-badger repository handle (type repo):      *)
(* the engine handle r.d, the key/value content of the badger engine and   *)
(* the item-store operations of repository.go, plus the engine-guarded     *)
(* OAuth read GetClient of osin.go.                                        *)
(*                                                                         *)
(* Keys are sequences of path segments (the bytes between "/").  An IRI is *)
(* a record of its host+path segments and its fragment.  Stored values are *)
(* the decoded form of what encodeItemFn wrote.                            *)
(***************************************************************************)
EXTENDS Naturals, Sequences, FiniteSets, TLC

VARIABLES
    path,      \* r.path: "" selects the in-memory engine (Open)
    fs,        \* what the file system has at the configured path
    d,         \* r.d: "nil" | "open" | "closed"
    leaked,    \* an engine this handle no longer references still holds the directory lock
    store,     \* key -> value: what the engine of this path holds
    last,      \* the last public call: its arguments and what it returned
    preStore,  \* store as it was when the last call started
    addPre,    \* history: the list a collection had before the AddTo that the last RemoveFrom undoes
    okDone,    \* history: the <<op, IRI>> of Create and Save calls that returned without error
    calls      \* the AddTo calls of goroutines that share the handle, each with its position

vars == <<path, fs, d, leaked, store, last, preStore, addPre, okDone, calls>>

----------------------------------------------------------------------------
(* Bounds of the model. *)

\* AddTo is not taken on a list that already has this many entries
MaxLen == 3
\* depth to which a stored bare IRI is followed by loadItem -> loadOneFromPath
MaxDeref == 2
\* the longest path, in segments, of the IRIs whose key prefix is compared
MaxSegs == 3

----------------------------------------------------------------------------
(* IRIs and items. *)

InMemory == ""
OnDisk == "/tmp/db"

IRI(p, f) == [path |-> p, frag |-> f]
EmptyIRI == IRI(<<>>, "")

Person == IRI(<<"h", "a">>, "")
PersonInbox == IRI(<<"h", "a", "inbox">>, "")
Note1 == IRI(<<"h", "1">>, "")
Note1Frag == IRI(<<"h", "1">>, "f")
Note2 == IRI(<<"h", "2">>, "")
Root == IRI(<<"h">>, "")
\* a storage-root collection, an object in it with a replies collection, and an IRI
\* whose path starts with the bytes of the storage root's
Objects == IRI(<<"h", "objects">>, "")
Obj1 == IRI(<<"h", "objects", "1">>, "")
Obj1Replies == IRI(<<"h", "objects", "1", "replies">>, "")
Objects2 == IRI(<<"h", "objects2">>, "")

\* An item value: kind "nil" (a nil interface), "iri" (a bare IRI), "object",
\* "actor", "collection", or "list" (vocab.IRIs / a decoded JSON array).
\* inbox and replies are <<>> (nil) or <<iri>>.
Item(k, id, inbox, replies, iris) ==
    [kind |-> k, id |-> id, inbox |-> inbox, replies |-> replies, iris |-> iris]

NilItem == Item("nil", EmptyIRI, <<>>, <<>>, <<>>)
BareIRI(i) == Item("iri", i, <<>>, <<>>, <<>>)
Object(i, replies) == Item("object", i, <<>>, replies, <<>>)
Actor(i, inbox) == Item("actor", i, inbox, <<>>, <<>>)
OrderedCollection(i) == Item("collection", i, <<>>, <<>>, <<>>)
IRIs(l) == Item("list", EmptyIRI, <<>>, <<>>, l)

\* IRIs used as the collection argument of AddTo / RemoveFrom / Create
ColIRIs == {EmptyIRI, Person, PersonInbox}
\* a collection IRI whose host is the name of the OAuth folder
OAuthClients == IRI(<<"oauth", "clients">>, "")
\* IRIs used as members
MemberIRIs == {Note1, Note1Frag, Note2}
\* IRIs asked of Load
LoadIRIs == {EmptyIRI, Root, Person, PersonInbox, Note1, Note2}

\* items handed to Save, AddTo, RemoveFrom and Delete
Items ==
    {NilItem, BareIRI(EmptyIRI), BareIRI(Note1), BareIRI(Note1Frag), BareIRI(Note2),
     Object(Note1, <<>>), Object(Note2, <<>>),
     Actor(Person, <<PersonInbox>>), OrderedCollection(PersonInbox)}

\* items handed to AddTo and RemoveFrom: members are never themselves used as collections
Members ==
    {NilItem, BareIRI(EmptyIRI), BareIRI(Note1), BareIRI(Note1Frag), Object(Note2, <<>>)}

\* collections handed to Create
Collections == {NilItem, OrderedCollection(PersonInbox), BareIRI(PersonInbox)}

\* vocab.IsNil
IsNil(it) == it.kind = "nil" \/ (it.kind = "iri" /\ it.id = EmptyIRI)

\* Item.GetLink (called on a non-nil interface)
GetLink(it) == it.id

\* vocab.IRI.Equals(with, false): host and path are compared, the fragment is not
Equals(a, b) == a.path = b.path

\* vocab.IRIs.Contains
Contains(iris, i) == \E k \in 1..Len(iris) : Equals(iris[k], i)

----------------------------------------------------------------------------
(* Path codec. *)

objectKey == "__raw"
itemsKey == "__items"

\* filepath.Clean on the segments between the separators of a path that does not
\* start with one: empty and "." segments go, ".." takes the segment before it with
\* it, or stays when there is none; done holds the cleaned segments so far
RECURSIVE CleanFrom(_, _)
CleanFrom(done, segs) ==
    IF segs = <<>> THEN done
    ELSE IF segs[1] \in {"", "."} THEN CleanFrom(done, Tail(segs))
    ELSE IF segs[1] = ".." /\ done # <<>> /\ done[Len(done)] # ".."
         THEN CleanFrom(SubSeq(done, 1, Len(done) - 1), Tail(segs))
    ELSE CleanFrom(Append(done, segs[1]), Tail(segs))

\* filepath.Join(url.Host, url.Path), on the host followed by the segments of the
\* path: the empty string when both are empty, else Clean of the two joined, which is
\* "." when nothing is left
Join(segs) ==
    IF \A k \in 1..Len(segs) : segs[k] = "" THEN <<"">>
    ELSE IF CleanFrom(<<>>, segs) = <<>> THEN <<".">>
    ELSE CleanFrom(<<>>, segs)

\* itemPath: filepath.Join(url.Host, url.Path); "" for the empty IRI. Every other
\* IRI of the model has a host, the first element of its path.
itemPath(iri) == Join(iri.path)

\* getObjectKey: bytes.Join({p, "__raw"}, "/")
getObjectKey(p) == Append(p, objectKey)

\* the __items key the specification speaks of; no code path of repository.go forms it
getItemsKey(p) == Append(p, itemsKey)

EmptyStore == [k \in {} |-> NilItem]

Has(s, k) == k \in DOMAIN s

Put(s, k, v) == [x \in (DOMAIN s) \cup {k} |-> IF x = k THEN v ELSE s[x]]

----------------------------------------------------------------------------
(* The engine's prefix iterator. *)

\* the path segments of the model in byte order ('/' sorts before every byte used)
SegOrder ==
    <<"", "1", "2", "__items", "__meta_data", "__raw", "a", "a1", "access", "activities",
      "actors", "authorize", "c1",
      "clients", "h", "inbox", "oauth", "objects", "objects2", "r1", "refresh", "replies",
      "t1", "t2">>

SegRanks ==
    [s \in {SegOrder[i] : i \in 1..Len(SegOrder)} |-> CHOOSE i \in 1..Len(SegOrder) : SegOrder[i] = s]

SegRank(s) == SegRanks[s]

\* a sorts before b in the engine's lexicographic key order
KeyLess(a, b) ==
    \E i \in 1..(Len(a) + 1) :
        /\ \A j \in 1..(i - 1) : j <= Len(b) /\ a[j] = b[j]
        /\ \/ i > Len(a) /\ i <= Len(b)
           \/ i <= Len(a) /\ i <= Len(b) /\ SegRank(a[i]) < SegRank(b[i])

RECURSIVE SortKeys(_)
SortKeys(S) ==
    IF S = {} THEN <<>>
    ELSE LET m == CHOOSE x \in S : \A y \in S \ {x} : KeyLess(x, y)
         IN <<m>> \o SortKeys(S \ {m})

\* a is a byte prefix of b, for two path segments of the model
StrPrefix(a, b) ==
    \/ a = b
    \/ a = ""
    \/ <<a, b>> \in {<<"objects", "objects2">>, <<"a", "a1">>, <<"a", "access">>,
                     <<"a", "authorize">>, <<"a", "activities">>, <<"a", "actors">>}

\* Iterator.ValidForPrefix: the bytes of p start the bytes of k
ValidForPrefix(p, k) ==
    /\ Len(p) <= Len(k)
    /\ \A i \in 1..(Len(p) - 1) : p[i] = k[i]
    /\ StrPrefix(p[Len(p)], k[Len(p)])

isObjectKey(k) == k[Len(k)] = objectKey

\* vocab.ValidCollection / vocab.ValidCollectionIRI: the last segment names an owned collection
OwnedCollectionNames ==
    {"inbox", "outbox", "followers", "following", "liked", "replies", "likes", "shares"}

ValidCollectionIRI(p) == p[Len(p)] \in OwnedCollectionNames

isStorageCollectionKey(p) == p[Len(p)] \in {"activities", "actors", "objects"}

\* a depth test that lets keys one level further down through
iterKeyIsTooDeepByTwo(base, k, depth) ==
    LET hasBase == Len(k) > Len(base) /\ SubSeq(k, 1, Len(base)) = base
        res == IF hasBase THEN SubSeq(k, Len(base) + 1, Len(k)) ELSE k
        cnt == Len(res) - 1
    IN cnt > depth + 1

\* iterKeyIsTooDeep: the separators of k after base + "/" is cut from its front and
\* "__raw" from its end; a key that does not start with base + "/" is counted whole
iterKeyIsTooDeep(base, k, depth) ==
    LET hasBase == Len(k) > Len(base) /\ SubSeq(k, 1, Len(base)) = base
        res == IF hasBase THEN SubSeq(k, Len(base) + 1, Len(k)) ELSE k
        cnt == Len(res) - 1
    IN cnt > depth

----------------------------------------------------------------------------
(* Loading. A load result is the collection built, the error returned and  *)
(* whether the goroutine panicked.                                         *)

LR(col, err, fatal) == [col |-> col, err |-> err, fatal |-> fatal]

\* ItemCollection.Contains by link
ColContains(col, i) == \E k \in 1..Len(col) : Equals(GetLink(col[k]), i)

IsCollection(it) == it.kind \in {"list", "collection"}

\* CollectionInterface.Collection(): the members as bare IRIs
CollectionOf(it) == it.iris

RECURSIVE loadFromPath(_, _, _, _, _)
RECURSIVE loadItemsElements(_, _, _, _, _)
RECURSIVE loadFromKeys(_, _, _, _, _, _, _, _)

\* loadOneFromPath's reading of what loadFromPath returned: its error, or the first item
firstOf(r) ==
    IF r.fatal \/ r.err # "ok" THEN LR(<<>>, r.err, r.fatal)
    ELSE IF Len(r.col) = 0 THEN LR(<<>>, "NotFound", FALSE)
    ELSE LR(<<r.col[1]>>, "ok", FALSE)

\* loadOneFromPath
loadOneFromPath(s, dd, iri, fuel) == firstOf(loadFromPath(s, dd, iri, TRUE, fuel))

\* (r *repo) loadItem's use of the item it dereferenced: the error of the lookup is dropped
derefOf(o) == LR(o.col, "ok", o.fatal)

\* (r *repo) loadItem: the item under the object key of p, a stored bare IRI followed once more
loadItem(s, dd, p, fuel) ==
    IF ~Has(s, getObjectKey(p)) THEN LR(<<>>, "NotFound", FALSE)
    ELSE IF IsNil(s[getObjectKey(p)]) THEN LR(<<>>, "NotFound", FALSE)
    ELSE IF IsCollection(s[getObjectKey(p)]) THEN LR(<<s[getObjectKey(p)]>>, "ok", FALSE)
    ELSE IF s[getObjectKey(p)].kind = "iri"
         THEN IF fuel = 0 THEN LR(<<>>, "panic", TRUE)
              ELSE derefOf(loadOneFromPath(s, dd, s[getObjectKey(p)].id, fuel - 1))
    ELSE LR(<<s[getObjectKey(p)]>>, "ok", FALSE)

\* loadItemsElements, one member: r is what loadItem returned for the head of iris
loadItemsElement(s, dd, iris, col, fuel, r) ==
    IF r.fatal THEN r
    ELSE loadItemsElements(s, dd, Tail(iris),
             IF r.err # "ok" \/ Len(r.col) = 0 \/ ColContains(col, GetLink(r.col[1]))
             THEN col ELSE Append(col, r.col[1]),
             fuel)

\* loadItemsElements: the members that load, in list order, each link once
loadItemsElements(s, dd, iris, col, fuel) ==
    IF iris = <<>> THEN LR(col, "ok", FALSE)
    ELSE loadItemsElement(s, dd, iris, col, fuel, loadItem(s, dd, itemPath(iris[1]), fuel))

RECURSIVE AppendNew(_, _)
AppendNew(col, c) ==
    IF c = <<>> THEN col
    ELSE AppendNew(IF ColContains(col, GetLink(c[1])) THEN col ELSE Append(col, c[1]), Tail(c))

\* loadFromIterator's merge of the members c it loaded into col
mergeInto(col, c) == IF c.fatal THEN c ELSE LR(AppendNew(col, c.col), "ok", FALSE)

\* loadFromIterator: one stored value fed into the collection under construction
loadFromIterator(s, dd, col, it, fuel) ==
    IF IsNil(it) THEN LR(col, "NotFound", FALSE)
    ELSE IF it.kind = "iri" \/ IsCollection(it)
         THEN mergeInto(col, loadItemsElements(s, dd,
                                 IF it.kind = "iri" THEN <<GetLink(it)>> ELSE CollectionOf(it),
                                 <<>>, fuel))
    ELSE IF ColContains(col, GetLink(it)) THEN LR(col, "ok", FALSE)
    ELSE LR(Append(col, it), "ok", FALSE)

\* the loop of loadFromPath, one object key: r is what loadFromIterator returned for it
loadFromKey(s, dd, keys, base, depth, loadMaxOne, col, fuel, r) ==
    IF r.fatal THEN r
    ELSE IF r.err = "ok" /\ Len(r.col) = 1 /\ loadMaxOne THEN r
    ELSE loadFromKeys(s, dd, Tail(keys), base, depth, loadMaxOne,
                      IF r.err # "ok" THEN col ELSE r.col, fuel)

\* the loop of loadFromPath over the keys of the prefix, in key order
loadFromKeys(s, dd, keys, base, depth, loadMaxOne, col, fuel) ==
    IF keys = <<>> THEN LR(col, "ok", FALSE)
    ELSE IF iterKeyIsTooDeep(base, keys[1], depth) \/ ~isObjectKey(keys[1])
         THEN loadFromKeys(s, dd, Tail(keys), base, depth, loadMaxOne, col, fuel)
    ELSE loadFromKey(s, dd, keys, base, depth, loadMaxOne, col, fuel,
                     loadFromIterator(s, dd, col, s[keys[1]], fuel))

\* the depth of the keys loadFromPath reads below the prefix
depthOf(fullPath) ==
    IF ValidCollectionIRI(fullPath) THEN 2
    ELSE IF isStorageCollectionKey(fullPath) THEN 1 ELSE 0

\* the end of loadFromPath's View: NotFound when no key had the prefix
viewResult(found, r) ==
    IF r.fatal THEN r
    ELSE IF found = {} /\ Len(r.col) = 0 THEN LR(r.col, "NotFound", FALSE)
    ELSE r

\* the keys that have the prefix
keysOf(s, fullPath) == {k \in DOMAIN s : ValidForPrefix(fullPath, k)}

\* loadFromPath, on the engine r.d refers to: a nil engine panics, a closed one fails the View
loadFromPath(s, dd, iri, loadMaxOne, fuel) ==
    IF dd = "nil" THEN LR(<<>>, "panic", TRUE)
    ELSE IF dd = "closed" THEN LR(<<>>, "DBClosed", FALSE)
    ELSE viewResult(keysOf(s, itemPath(iri)),
                    loadFromKeys(s, dd, SortKeys(keysOf(s, itemPath(iri))), itemPath(iri),
                                 depthOf(itemPath(iri)), loadMaxOne, <<>>, fuel))

----------------------------------------------------------------------------
(* The engine handle. *)

\* Open: badger.Open on r.path. The in-memory engine is always a new, empty one. On disk
\* the directory lock is taken; while another engine holds it Open fails and r.d is nil.
OpenOutcome(dd, lk) ==
    IF path = InMemory THEN [d |-> "open", leaked |-> lk, err |-> "ok"]
    ELSE IF dd = "open" \/ lk THEN [d |-> "nil", leaked |-> TRUE, err |-> "OpenErr"]
    ELSE [d |-> "open", leaked |-> FALSE, err |-> "ok"]

\* what a newly opened engine holds
OpenedStore(s) == IF path = InMemory THEN EmptyStore ELSE s

CloseOutcomeLeavesOpen(dd) == dd

\* close: nothing on a nil r.d, else badger's Close, which r.d keeps referring to
CloseOutcome(dd) == IF dd = "nil" THEN "nil" ELSE "closed"

\* what is left once the engine is closed: an in-memory engine takes its content with it
ClosedStore(s) == IF path = InMemory THEN EmptyStore ELSE s

----------------------------------------------------------------------------
(* Write batches. A batch maps the keys it Set to their values; NilItem    *)
(* marks a key it Deleted.                                                 *)

\* WriteBatch.Flush: every entry of the batch committed at once
Flushed(s, b) ==
    [k \in {x \in (DOMAIN s) \cup (DOMAIN b) : ~(Has(b, x) /\ b[x] = NilItem)} |->
        IF Has(b, k) THEN b[k] ELSE s[k]]

\* a save that ends with Flush
FlushedBySave(s, b) == Flushed(s, b)

\* what save, Create and delete do with their batch: they return without Flush,
\* so none of its entries reaches the engine
Unflushed(s, b) == s

\* emptyCollection: the encoding of vocab.IRIs{}
emptyCollection == IRIs(<<>>)

\* a path segment that by itself exceeds the 65000 bytes of a key of the engine
LongSeg == "long"

\* WriteBatch.Set: the engine refuses a key over its maximum size
SetRefused(k) == \E i \in DOMAIN k : k[i] = LongSeg

\* Item.GetLink of the value of a collection field: an IRI is its own link, an
\* embedded collection has its id
RefLink(ref) == IF "kind" \in DOMAIN ref THEN GetLink(ref) ELSE ref

\* createCollectionInPath, the batch: the empty list under the key of the link
createCollectionInPath(b, iri) ==
    IF SetRefused(getObjectKey(itemPath(RefLink(iri)))) THEN b
    ELSE Put(b, getObjectKey(itemPath(RefLink(iri))), emptyCollection)

\* createCollectionInPath, the item it returns: the link, nil when Set failed
createdLink(ref) ==
    IF SetRefused(getObjectKey(itemPath(RefLink(ref)))) THEN <<>> ELSE <<RefLink(ref)>>

\* the assignment createCollections makes to a collection field that is not nil
assigned(field) == IF field = <<>> THEN <<>> ELSE createdLink(field[1])

IsObject(it) == it.kind \in {"object", "actor", "collection"}

RECURSIVE createAll(_, _)
createAll(b, refs) ==
    IF refs = <<>> THEN b ELSE createAll(createCollectionInPath(b, refs[1]), Tail(refs))

\* createCollections: every non-nil owned sub-collection of an actor or object,
\* on every save
createCollections(b, it) ==
    IF IsNil(it) \/ ~IsObject(it) THEN b
    ELSE createAll(b, (IF it.kind = "actor" THEN it.inbox ELSE <<>>) \o it.replies)

\* createCollections, the item: OnActor and OnObject work on the caller's value,
\* whose collection fields take what createCollectionInPath returned
collectionsAssigned(it) ==
    IF IsNil(it) \/ ~IsObject(it) THEN it
    ELSE [it EXCEPT !.inbox = IF it.kind = "actor" THEN assigned(it.inbox) ELSE it.inbox,
                    !.replies = assigned(it.replies)]

\* save: the batch it builds (sub-collections, then the object itself as
\* createCollections left it)
saveBatch(it) ==
    Put(createCollections(EmptyStore, it), getObjectKey(itemPath(GetLink(it))),
        collectionsAssigned(it))

\* save
save(s, it) == Unflushed(s, saveBatch(it))

----------------------------------------------------------------------------
(* Membership lists. *)

\* an AddTo closure that puts a new link in front
AddToFnPrepends(iris, link) == IF Contains(iris, link) THEN iris ELSE <<link>> \o iris

\* the closure AddTo hands to onCollection
AddToFn(iris, link) == IF Contains(iris, link) THEN iris ELSE Append(iris, link)

\* a removal that cuts the list at the first link-equal entry (iris[:k] alone)
RemoveFromFnTruncates(iris, link) ==
    IF ~Contains(iris, link) THEN iris
    ELSE LET k == CHOOSE i \in 1..Len(iris) :
                      Equals(iris[i], link) /\ \A j \in 1..(i - 1) : ~Equals(iris[j], link)
         IN SubSeq(iris, 1, k - 1)

\* the closure RemoveFrom hands to onCollection: the first link-equal entry goes
RemoveFromFn(iris, link) ==
    IF ~Contains(iris, link) THEN iris
    ELSE LET k == CHOOSE i \in 1..Len(iris) :
                      Equals(iris[i], link) /\ \A j \in 1..(i - 1) : ~Equals(iris[j], link)
         IN SubSeq(iris, 1, k - 1) \o SubSeq(iris, k + 1, Len(iris))

\* the list onCollection decodes from the object key of the collection
StoredIRIs(s, col) ==
    LET k == getObjectKey(itemPath(col))
    IN IF Has(s, k) /\ s[k].kind = "list" THEN s[k].iris ELSE <<>>

\* onCollection's argument checks, made before the engine is opened
onCollectionArgsErr(col, it) == IsNil(it) \/ col = EmptyIRI \/ GetLink(it) = EmptyIRI

\* CollectionPaths.Split: the owner of a collection IRI
SplitOwner(col) == IRI(SubSeq(col.path, 1, Len(col.path) - 1), "")

SplitValid(col) == col.path # <<>> /\ ValidCollectionIRI(col.path)

\* CollectionPath.AddTo: an object owner that lacks the collection gets it
OwnerLacks(i, col) == i.kind = "actor" /\ i.inbox = <<>>

\* addCollectionOnObject, on the engine r.d refers to before onCollection opens one
addCollectionOnObject(s, dd, col) ==
    IF ~SplitValid(col) THEN [fatal |-> FALSE, store |-> s]
    ELSE LET i == loadOneFromPath(s, dd, SplitOwner(col), MaxDeref)
         IN IF i.fatal THEN [fatal |-> TRUE, store |-> s]
            ELSE IF i.err = "ok" /\ OwnerLacks(i.col[1], col)
                 THEN [fatal |-> FALSE, store |-> save(s, [i.col[1] EXCEPT !.inbox = <<col>>])]
            ELSE [fatal |-> FALSE, store |-> s]

\* filters.Filters.IsItemIRI: the IRI names an item, not a collection
IsItemIRI(iri) ==
    iri # EmptyIRI /\ ~ValidCollectionIRI(iri.path) /\ ~isStorageCollectionKey(iri.path)

----------------------------------------------------------------------------
(* State and operations. *)

Call(op, col, it, err, res) ==
    [op |-> op, col |-> col, it |-> it, err |-> err, res |-> res, check |-> "none", arg |-> <<>>]

\* the checks a caller hands to Load: none, a type check, a maximum count of one
Checks == {"none", "IsActor", "MaxOne"}

NoAddPre == [set |-> FALSE, list |-> <<>>]

\* the history of Create calls and of Save calls of objects the scenarios speak of
Tracked == {<<"Create", PersonInbox.path>>, <<"Save", Note2.path>>}

Track(op, it, err) ==
    IF err = "ok" /\ <<op, GetLink(it).path>> \in Tracked /\ (op = "Save" => IsObject(it))
    THEN okDone \cup {<<op, GetLink(it).path>>}
    ELSE okDone

\* the SaveAccess calls in the history stand for grants of the engine that took them:
\* they leave the history when the handle is opened again or closed. The clients in
\* the history are those written and not removed since, the passwords and private
\* keys those last set; an in-memory engine takes them with it.
Forget(done) ==
    {e \in done : e[1] # "SaveAccess" /\ (e[1] \in {"Client", "Pw", "Key"} => path # InMemory)}

\* the goroutines that call AddTo on the one handle, and a goroutine that is in no call
Procs == {1, 2}
Idle == [pc |-> "idle", col |-> EmptyIRI, it |-> NilItem, err |-> "ok"]
NoCalls == [p \in Procs |-> Idle]

\* history of a handle whose Init marks it New: that Open succeeded, that Close
\* followed, that Open succeeded once more
Life(x) == <<"Life", <<x>>>>

Lived(done, op, err) ==
    IF Life("new") \notin done \/ err # "ok" THEN done
    ELSE IF op = "Close" THEN (IF Life("opened") \in done THEN done \cup {Life("closed")} ELSE done)
    ELSE IF Life("closed") \in done THEN done \cup {Life("reopened")}
    ELSE done \cup {Life("opened")}

\* what New leaves at the configured path: the directory, nothing for the path ""
CreatedDir(p) == IF p = InMemory THEN "none" ELSE "dir"

\* New: the handle as constructed, on a directory that holds nothing yet
Init ==
    /\ path \in {InMemory, OnDisk}
    /\ fs = CreatedDir(path)
    /\ d = "nil"
    /\ leaked = FALSE
    /\ store = EmptyStore
    /\ last = Call("New", EmptyIRI, NilItem, "ok", <<>>)
    /\ preStore = EmptyStore
    /\ addPre = NoAddPre
    /\ okDone = {}
    /\ calls = NoCalls

\* a panic ends the process
Alive == last.err # "panic"

\* Open
Open ==
    /\ Alive
    /\ LET o == OpenOutcome(d, leaked)
       IN /\ d' = o.d
          /\ leaked' = o.leaked
          /\ store' = IF o.err = "ok" THEN OpenedStore(store) ELSE store
          /\ last' = Call("Open", EmptyIRI, NilItem, o.err, <<>>)
          /\ okDone' = Lived(Forget(okDone), "Open", o.err)
    /\ preStore' = store
    /\ addPre' = NoAddPre
    /\ UNCHANGED <<path, fs, calls>>

\* Close
Close ==
    /\ Alive
    /\ d' = CloseOutcome(d)
    /\ store' = IF d = "open" THEN ClosedStore(store) ELSE store
    /\ last' = Call("Close", EmptyIRI, NilItem, "ok", <<>>)
    /\ preStore' = store
    /\ addPre' = NoAddPre
    /\ okDone' = Lived(Forget(okDone), "Close", "ok")
    /\ UNCHANGED <<path, fs, calls, leaked>>

\* what the call returns besides its error: Save returns the item it was handed
\* when Open failed and the item save returned when it ran; the others return
\* nothing that is looked at
Returned(body, ran) ==
    IF "res" \notin DOMAIN body THEN <<>> ELSE IF ran THEN body.res ELSE body.unopened

OpenedRegardless(op, col, it, body) ==
    LET o == OpenOutcome(d, leaked)
    IN /\ leaked' = o.leaked
       /\ d' = CloseOutcome(o.d)
       /\ store' = ClosedStore(body.store)
       /\ last' = Call(op, col, it, IF o.err # "ok" THEN o.err ELSE body.err,
                       Returned(body, o.err = "ok"))

\* The shape Save, Create, Delete and onCollection share: Open, return its error, else
\* run the body on the opened engine and Close it on the way out (also on a panic).
\* body is [store |-> the engine's content after the body, err |-> what it returns].
Opened(op, col, it, body) ==
    LET o == OpenOutcome(d, leaked)
    IN /\ leaked' = o.leaked
       /\ IF o.err # "ok"
          THEN /\ d' = o.d
               /\ store' = store
               /\ last' = Call(op, col, it, o.err, Returned(body, FALSE))
          ELSE /\ d' = CloseOutcome(o.d)
               /\ store' = ClosedStore(body.store)
               /\ last' = Call(op, col, it, body.err, Returned(body, TRUE))

\* Save
Save(it) ==
    /\ Alive
    /\ LET s0 == OpenedStore(store)
           body == IF it.kind = "nil"
                   THEN [store |-> s0, err |-> "panic", res |-> <<>>, unopened |-> <<it>>]
                   ELSE [store |-> save(s0, it), err |-> "ok",
                         res |-> <<collectionsAssigned(it)>>, unopened |-> <<it>>]
       IN /\ Opened("Save", EmptyIRI, it, body)
          /\ okDone' = Track("Save", it, last'.err)
    /\ preStore' = store
    /\ addPre' = NoAddPre
    /\ UNCHANGED <<path, fs, calls>>

\* Create
Create(col) ==
    /\ Alive
    /\ LET s0 == OpenedStore(store)
           body == IF col.kind = "nil" THEN [store |-> s0, err |-> "panic"]
                   ELSE [store |-> Unflushed(s0, createCollectionInPath(EmptyStore, GetLink(col))),
                         err |-> "ok"]
       IN /\ Opened("Create", EmptyIRI, col, body)
          /\ okDone' = Track("Create", col, last'.err)
    /\ preStore' = store
    /\ addPre' = NoAddPre
    /\ UNCHANGED <<path, fs, calls>>

\* a delete that also takes the IRI of the item out of every stored list, and commits
deleteScrubbing(s, it) ==
    [store |-> [k \in DOMAIN s |->
                   IF s[k].kind = "list"
                   THEN IRIs(SelectSeq(s[k].iris, LAMBDA i : ~Equals(i, GetLink(it))))
                   ELSE s[k]],
     err |-> "ok"]

\* delete: a collection is deleted member by member, anything else is looked up and
\* its object key deleted in a batch of its own
delete(s, it) ==
    IF it.kind = "nil" THEN [store |-> s, err |-> "panic"]
    ELSE IF IsCollection(it) THEN [store |-> s, err |-> "ok"]
    ELSE LET old == loadOneFromPath(s, "open", GetLink(it), MaxDeref)
         IN IF old.fatal THEN [store |-> s, err |-> "panic"]
            ELSE IF old.err # "ok" THEN [store |-> s, err |-> old.err]
            ELSE [store |-> Unflushed(s, Put(EmptyStore,
                                getObjectKey(itemPath(GetLink(old.col[1]))), NilItem)),
                  err |-> "ok"]

\* Delete
Delete(it) ==
    /\ Alive
    /\ Opened("Delete", EmptyIRI, it, delete(OpenedStore(store), it))
    /\ okDone' = IF last'.err = "ok" THEN okDone \ {<<"Save", GetLink(it).path>>} ELSE okDone
    /\ preStore' = store
    /\ addPre' = NoAddPre
    /\ UNCHANGED <<path, fs, calls>>

\* onCollection's Update transaction: read the list, apply fn, put it back
onCollectionTxn(s, col, new) ==
    [store |-> Put(s, getObjectKey(itemPath(col)), IRIs(new)), err |-> "ok"]

\* AddTo
AddTo(col, it) ==
    /\ Alive
    /\ Len(StoredIRIs(store, col)) < MaxLen
    /\ LET pre == addCollectionOnObject(store, d, col)
       IN IF pre.fatal
          THEN /\ last' = Call("AddTo", col, it, "panic", <<>>)
               /\ UNCHANGED <<d, leaked, store>>
          ELSE IF onCollectionArgsErr(col, it)
          THEN /\ last' = Call("AddTo", col, it, "Err", <<>>)
               /\ store' = pre.store
               /\ UNCHANGED <<d, leaked>>
          ELSE LET s0 == OpenedStore(pre.store)
               IN Opened("AddTo", col, it,
                         onCollectionTxn(s0, col, AddToFn(StoredIRIs(s0, col), GetLink(it))))
    /\ preStore' = store
    /\ addPre' = NoAddPre
    /\ UNCHANGED <<path, fs, calls, okDone>>

\* RemoveFrom
RemoveFrom(col, it) ==
    /\ Alive
    /\ IF onCollectionArgsErr(col, it)
       THEN /\ last' = Call("RemoveFrom", col, it, "Err", <<>>)
            /\ UNCHANGED <<d, leaked, store>>
       ELSE LET s0 == OpenedStore(store)
            IN Opened("RemoveFrom", col, it,
                      onCollectionTxn(s0, col, RemoveFromFn(StoredIRIs(s0, col), GetLink(it))))
    /\ preStore' = store
    /\ addPre' = IF /\ last.op = "AddTo" /\ last.err = "ok" /\ last.col = col /\ last.it = it
                    /\ last'.err = "ok"
                 THEN [set |-> TRUE, list |-> StoredIRIs(preStore, col)]
                 ELSE NoAddPre
    /\ UNCHANGED <<path, fs, calls, okDone>>

\* Load called in the current state: the error of its Open is dropped, so a failed Open
\* leaves a nil engine to read; the engine is closed on the way out
LoadOutcome(iri) ==
    LET o == OpenOutcome(d, leaked)
        r == loadFromPath(OpenedStore(store), o.d, iri, IsItemIRI(iri), MaxDeref)
    IN [d |-> CloseOutcome(o.d),
        leaked |-> o.leaked,
        store |-> IF o.err = "ok" THEN ClosedStore(OpenedStore(store)) ELSE store,
        err |-> r.err,
        res |-> r.col]

\* Load: its checks parameter is blank, what the caller passes is not looked at
Load(iri, check) ==
    /\ Alive
    /\ LET r == LoadOutcome(iri)
       IN /\ leaked' = r.leaked
          /\ d' = r.d
          /\ store' = r.store
          /\ last' = [Call("Load", iri, NilItem, r.err, r.res) EXCEPT !.check = check]
    /\ preStore' = store
    /\ addPre' = NoAddPre
    /\ UNCHANGED <<path, fs, calls, okDone>>

clientsBucket == "clients"
authorizeBucket == "authorize"
accessBucket == "access"
refreshBucket == "refresh"
folder == "oauth"

\* badgerItemPath: filepath.Join of the folder and the pieces, which drops empty ones
badgerItemPath(pieces) == SelectSeq(<<folder>> \o pieces, LAMBDA x : x # "")

\* clientPath
clientPath(id) == badgerItemPath(<<clientsBucket, id>>)

ClientIds == {"", "c1"}

\* a call of the OAuth store: its arguments and what it returned
OAuthCall(op, arg, err, res) == [Call(op, EmptyIRI, NilItem, err, res) EXCEPT !.arg = arg]

----------------------------------------------------------------------------
(* The OAuth store of osin.go. A client is [Id, Secret]; a pointer that may *)
(* be nil is a sequence of at most one record.                             *)

DefaultClient(id, secret) == [Id |-> id, Secret |-> secret]
AuthorizeData(code, client, scope) == [Code |-> code, Client |-> client, Scope |-> scope]
AccessData(token, refresh, client, authorize, prev) ==
    [AccessToken |-> token, RefreshToken |-> refresh, Client |-> client,
     AuthorizeData |-> authorize, AccessData |-> prev]

\* the stored forms: the structs cl, auth, acc and ref. Expired stands for
\* CreatedAt + ExpiresIn lying before the time of the load.
cl(id, secret) == [kind |-> "cl", Id |-> id, Secret |-> secret]
auth(client, code, scope, expired) ==
    [kind |-> "auth", Client |-> client, Code |-> code, Scope |-> scope, Expired |-> expired]
acc(client, authorize, access, refresh, expired) ==
    [kind |-> "acc", Client |-> client, Authorize |-> authorize,
     AccessToken |-> access, RefreshToken |-> refresh, Expired |-> expired]
ref(access) == [kind |-> "ref", Access |-> access]

authorizePath(code) == badgerItemPath(<<authorizeBucket, code>>)
accessPath(code) == badgerItemPath(<<accessBucket, code>>)
refreshPath(refresh) == badgerItemPath(<<refreshBucket, refresh>>)

\* the nil osin.Client
NoClient == "<nil>"

Secret1 == "s1"
Scope1 == "sc"
Codes == {"a1"}
Tokens == {"t1", "t2"}
Refreshes == {"", "r1"}
\* the AccessData a grant replaces: "" for none
Prevs == {"", "t1"}
Expiry == {"valid", "expired"}

\* what a method answers on a handle that cannot serve it
NotServed == IF d = "nil" THEN "NotOpen" ELSE IF d = "closed" THEN "DBClosed" ELSE "ok"

\* loadRawClient: the JSON of a client decodes; that of a list of IRIs, an array,
\* does not decode into the struct
loadRawClient(raw) ==
    IF raw.kind = "cl" THEN [err |-> "ok", c |-> <<DefaultClient(raw.Id, raw.Secret)>>]
    ELSE [err |-> "DecodeErr", c |-> <<>>]

\* loadTxnClient
loadTxnClient(s, id) ==
    IF ~Has(s, clientPath(id)) THEN [err |-> "NotFound", c |-> <<>>]
    ELSE loadRawClient(s[clientPath(id)])

\* what GetClient returns
GetClientOutcome(id) ==
    IF d = "nil" THEN [err |-> "NotOpen", c |-> <<>>]
    ELSE IF id = "" THEN [err |-> "NotFound", c |-> <<>>]
    ELSE IF d = "closed" THEN [err |-> "DBClosed", c |-> <<>>]
    ELSE loadTxnClient(store, id)

\* GetClient (osin.go), on the engine handle of the repo
GetClient(id) ==
    /\ Alive
    /\ last' = OAuthCall("GetClient", <<id>>, GetClientOutcome(id).err, GetClientOutcome(id).c)
    /\ preStore' = store
    /\ addPre' = NoAddPre
    /\ UNCHANGED <<path, fs, calls, d, leaked, store, okDone>>

\* a loadRawAuthorize that never looks at the clock
loadRawAuthorizeNoExpiry(raw) ==
    [err |-> "ok",
     a |-> <<AuthorizeData(raw.Code,
                           IF raw.Code # "" THEN <<DefaultClient(raw.Client, "")>> ELSE <<>>,
                           raw.Scope)>>]

\* loadRawAuthorize: the fields decoded, the client a stub of its id
loadRawAuthorize(raw) ==
    [err |-> IF raw.Expired THEN "Expired" ELSE "ok",
     a |-> <<AuthorizeData(raw.Code,
                           IF raw.Code # "" THEN <<DefaultClient(raw.Client, "")>> ELSE <<>>,
                           raw.Scope)>>]

\* a loadTxnAuthorize that leaves the client the stub loadRawAuthorize made of
\* its id
authorizeWithClientStub(s, l) == l

\* loadTxnAuthorize: the client of the authorization must load as well
authorizeWithClient(s, l) ==
    IF l.err # "ok" \/ l.a[1].Client = <<>> THEN l
    ELSE IF loadTxnClient(s, l.a[1].Client[1].Id).err # "ok" THEN [err |-> "NotFound", a |-> l.a]
    ELSE [err |-> "ok",
          a |-> <<[l.a[1] EXCEPT !.Client = loadTxnClient(s, l.a[1].Client[1].Id).c]>>]

loadTxnAuthorize(s, code) ==
    IF ~Has(s, authorizePath(code)) THEN [err |-> "NotFound", a |-> <<>>]
    ELSE authorizeWithClient(s, loadRawAuthorize(s[authorizePath(code)]))

\* a loadRawAccess that sets the stubs of the dependencies whatever loadDeps says
loadRawAccessAlways(raw, loadDeps) ==
    AccessData(raw.AccessToken, raw.RefreshToken,
               IF raw.Client # "" THEN <<DefaultClient(raw.Client, "")>> ELSE <<>>,
               IF raw.Authorize # ""
                   THEN <<AuthorizeData(raw.Authorize, <<>>, "")>> ELSE <<>>,
               IF raw.RefreshToken # ""
                   THEN <<AccessData(raw.RefreshToken, "", <<>>, <<>>, <<>>)>> ELSE <<>>)

\* loadRawAccess
loadRawAccess(raw, loadDeps) ==
    AccessData(raw.AccessToken, raw.RefreshToken,
               IF raw.Client # "" THEN <<DefaultClient(raw.Client, "")>> ELSE <<>>,
               IF loadDeps /\ raw.Authorize # ""
                   THEN <<AuthorizeData(raw.Authorize, <<>>, "")>> ELSE <<>>,
               IF loadDeps /\ raw.RefreshToken # ""
                   THEN <<AccessData(raw.RefreshToken, "", <<>>, <<>>, <<>>)>> ELSE <<>>)

\* loadTxnAccess, the client: replaced by the stored one when that loads
accessWithClient(s, a) ==
    IF a.Client # <<>> /\ a.Client[1].Id # "" /\ loadTxnClient(s, a.Client[1].Id).err = "ok"
    THEN [a EXCEPT !.Client = loadTxnClient(s, a.Client[1].Id).c]
    ELSE a

\* loadTxnAccess, the authorization: replaced by the stored one when that loads
accessWithAuthorize(s, a) ==
    IF a.AuthorizeData # <<>> /\ a.AuthorizeData[1].Code # ""
       /\ loadTxnAuthorize(s, a.AuthorizeData[1].Code).err = "ok"
    THEN [a EXCEPT !.AuthorizeData = loadTxnAuthorize(s, a.AuthorizeData[1].Code).a]
    ELSE a

\* loadTxnAccess, the previous access: looked up in the access bucket under the
\* refresh token, nil when that finds nothing
accessWithRefresh(a, rf) ==
    IF a.RefreshToken = "" THEN a
    ELSE [a EXCEPT !.AccessData = IF rf.err = "ok" THEN rf.a ELSE <<>>]

RECURSIVE loadTxnAccess(_, _, _)
loadTxnAccess(s, token, loadDeps) ==
    IF ~Has(s, accessPath(token)) THEN [err |-> "NotFound", a |-> <<>>]
    ELSE [err |-> "ok",
          a |-> <<IF loadDeps
                  THEN accessWithRefresh(
                           accessWithAuthorize(s,
                               accessWithClient(s, loadRawAccess(s[accessPath(token)], TRUE))),
                           loadTxnAccess(s, s[accessPath(token)].RefreshToken, FALSE))
                  ELSE accessWithClient(s, loadRawAccess(s[accessPath(token)], FALSE))>>]

\* the part of an OAuth method every one of them shares; the history of the item
\* store starts anew from what the method leaves
OAuthStep(op, arg, err, res, s) ==
    /\ Alive
    /\ last' = OAuthCall(op, arg, err, res)
    /\ store' = s
    /\ preStore' = s
    /\ addPre' = NoAddPre
    /\ UNCHANGED <<path, fs, calls, d, leaked>>

Secrets == {Secret1, "s2"}

\* what UpdateClient returns and leaves in the engine: nothing to do for a nil
\* client, else the client written under its id and flushed
UpdateClientOutcome(id, secret) ==
    IF d = "nil" THEN [err |-> "NotOpen", store |-> store]
    ELSE IF id = NoClient THEN [err |-> "ok", store |-> store]
    ELSE IF d = "closed" THEN [err |-> "DBClosed", store |-> store]
    ELSE [err |-> "ok", store |-> Flushed(store, Put(EmptyStore, clientPath(id), cl(id, secret)))]

\* the history without the client id, as a successful write or removal of it leaves it
WithoutClient(done, id) == {e \in done : ~(e[1] = "Client" /\ e[2][1] = id)}

\* the history after a call that was to store the client
ClientWritten(done, id, secret, err) ==
    IF err # "ok" \/ id = NoClient THEN done
    ELSE WithoutClient(done, id) \cup {<<"Client", <<id, secret>>>>}

\* UpdateClient
UpdateClient(id, secret) ==
    /\ OAuthStep("UpdateClient", <<id, secret>>, UpdateClientOutcome(id, secret).err, <<>>,
                 UpdateClientOutcome(id, secret).store)
    /\ okDone' = ClientWritten(okDone, id, secret, UpdateClientOutcome(id, secret).err)

\* CreateClient
CreateClient(id, secret) ==
    /\ OAuthStep("CreateClient", <<id, secret>>,
                 IF d = "nil" THEN "NotOpen" ELSE UpdateClientOutcome(id, secret).err,
                 <<>>,
                 IF d = "nil" THEN store ELSE UpdateClientOutcome(id, secret).store)
    /\ okDone' = ClientWritten(okDone, id, secret, UpdateClientOutcome(id, secret).err)

\* RemoveClient: the Delete of the client's key, flushed
RemoveClient(id) ==
    /\ OAuthStep("RemoveClient", <<id>>, NotServed, <<>>,
                 IF NotServed # "ok" THEN store
                 ELSE Flushed(store, Put(EmptyStore, clientPath(id), NilItem)))
    /\ okDone' = IF NotServed # "ok" THEN okDone ELSE WithoutClient(okDone, id)

\* the keys ListClients iterates: those the bytes of oauth/clients start, in key order
clientKeys(s) == SortKeys({k \in DOMAIN s : ValidForPrefix(badgerItemPath(<<clientsBucket>>), k)})

\* ListClients over the keys ks: the clients decoded up to the first value that
\* does not decode, returned with that error
RECURSIVE listClients(_, _, _)
listClients(s, ks, acc0) ==
    IF ks = <<>> THEN [err |-> "ok", res |-> acc0]
    ELSE IF loadRawClient(s[Head(ks)]).err # "ok"
    THEN [err |-> loadRawClient(s[Head(ks)]).err, res |-> acc0]
    ELSE listClients(s, Tail(ks), acc0 \o loadRawClient(s[Head(ks)]).c)

\* what ListClients returns
ListClientsOutcome ==
    IF d = "nil" THEN [err |-> "NotOpen", res |-> <<>>]
    ELSE IF d = "closed" THEN [err |-> "DBClosed", res |-> <<>>]
    ELSE listClients(store, clientKeys(store), <<>>)

ListClients ==
    /\ OAuthStep("ListClients", <<>>, ListClientsOutcome.err, ListClientsOutcome.res, store)
    /\ UNCHANGED okDone

\* SaveAuthorize
SaveAuthorize(code, client, expiry) ==
    /\ OAuthStep("SaveAuthorize", <<code, client, expiry>>, NotServed, <<>>,
                 IF NotServed # "ok" THEN store
                 ELSE Flushed(store, Put(EmptyStore, authorizePath(code),
                                         auth(client, code, Scope1, expiry = "expired"))))
    /\ UNCHANGED okDone

\* a saveRefresh that files the refresh token under the access token
saveRefreshSwapped(txn, refresh, access) == Put(txn, refreshPath(access), ref(refresh))

\* saveRefresh
saveRefresh(txn, refresh, access) == Put(txn, refreshPath(refresh), ref(access))

\* the refresh token SaveAccess goes on with
RefreshOf(refresh, prev) == IF prev # "" /\ refresh = "" THEN prev ELSE refresh

\* the SaveAccess calls a new one of this token and refresh token overwrites
Overwritten(done, token, refresh) ==
    {e \in done : e[1] = "SaveAccess"
                  /\ (e[2][1] = token \/ (refresh # "" /\ RefreshOf(e[2][2], e[2][5]) = refresh))}

\* the batch SaveAccess builds up to its check of the client
refreshBatch(token, refresh, prev) ==
    IF RefreshOf(refresh, prev) # ""
    THEN saveRefresh(EmptyStore, RefreshOf(refresh, prev), token)
    ELSE EmptyStore

\* a SaveAccess that commits the refresh record before it looks at the client
SaveAccessOutcomeEager(token, refresh, client, code, prev, expiry) ==
    IF d = "nil" THEN [err |-> "NotOpen", store |-> store]
    ELSE IF d = "closed" THEN [err |-> "DBClosed", store |-> store]
    ELSE IF client = NoClient
    THEN [err |-> "NilClient", store |-> Flushed(store, refreshBatch(token, refresh, prev))]
    ELSE [err |-> "ok",
          store |-> Flushed(store, Put(refreshBatch(token, refresh, prev), accessPath(token),
                                       acc(client, code, token, RefreshOf(refresh, prev),
                                           expiry = "expired")))]

\* what SaveAccess returns and leaves in the engine: a batch it returns from
\* without Flush is lost
SaveAccessOutcome(token, refresh, client, code, prev, expiry) ==
    IF d = "nil" THEN [err |-> "NotOpen", store |-> store]
    ELSE IF client = NoClient THEN [err |-> "NilClient", store |-> store]
    ELSE IF d = "closed" THEN [err |-> "DBClosed", store |-> store]
    ELSE [err |-> "ok",
          store |-> Flushed(store, Put(refreshBatch(token, refresh, prev), accessPath(token),
                                       acc(client, code, token, RefreshOf(refresh, prev),
                                           expiry = "expired")))]

\* SaveAccess
SaveAccess(token, refresh, client, code, prev, expiry) ==
    /\ OAuthStep("SaveAccess", <<token, refresh, client, code, prev, expiry>>,
                 SaveAccessOutcome(token, refresh, client, code, prev, expiry).err, <<>>,
                 SaveAccessOutcome(token, refresh, client, code, prev, expiry).store)
    /\ okDone' = IF SaveAccessOutcome(token, refresh, client, code, prev, expiry).err # "ok"
                 THEN okDone
                 ELSE (okDone \ Overwritten(okDone, token, RefreshOf(refresh, prev)))
                          \cup {<<"SaveAccess", <<token, refresh, client, code, prev, expiry>>>>}

\* what LoadAuthorize returns: no data with an error
LoadAuthorizeOutcome(code) ==
    IF d = "nil" THEN [err |-> "NotOpen", a |-> <<>>]
    ELSE IF code = "" THEN [err |-> "NotFound", a |-> <<>>]
    ELSE IF d = "closed" THEN [err |-> "DBClosed", a |-> <<>>]
    ELSE IF loadTxnAuthorize(store, code).err # "ok"
    THEN [err |-> loadTxnAuthorize(store, code).err, a |-> <<>>]
    ELSE loadTxnAuthorize(store, code)

\* LoadAuthorize
LoadAuthorize(code) ==
    /\ OAuthStep("LoadAuthorize", <<code>>, LoadAuthorizeOutcome(code).err,
                 LoadAuthorizeOutcome(code).a, store)
    /\ UNCHANGED okDone

\* what LoadAccess returns
LoadAccessOutcome(code) ==
    IF d = "nil" THEN [err |-> "NotOpen", a |-> <<>>]
    ELSE IF code = "" THEN [err |-> "NotFound", a |-> <<>>]
    ELSE IF d = "closed" THEN [err |-> "DBClosed", a |-> <<>>]
    ELSE loadTxnAccess(store, code, TRUE)

\* LoadAccess
LoadAccess(code) ==
    /\ OAuthStep("LoadAccess", <<code>>, LoadAccessOutcome(code).err,
                 LoadAccessOutcome(code).a, store)
    /\ UNCHANGED okDone

\* what LoadRefresh returns: any failure to read the refresh record is a NotFound
LoadRefreshOutcome(token) ==
    IF d = "nil" THEN [err |-> "NotOpen", a |-> <<>>]
    ELSE IF token = "" THEN [err |-> "NotFound", a |-> <<>>]
    ELSE IF d = "closed" \/ ~Has(store, refreshPath(token)) THEN [err |-> "NotFound", a |-> <<>>]
    ELSE IF store[refreshPath(token)].Access = "" THEN [err |-> "NotFound", a |-> <<>>]
    ELSE LoadAccessOutcome(store[refreshPath(token)].Access)

\* LoadRefresh
LoadRefresh(token) ==
    /\ OAuthStep("LoadRefresh", <<token>>, LoadRefreshOutcome(token).err,
                 LoadRefreshOutcome(token).a, store)
    /\ UNCHANGED okDone

----------------------------------------------------------------------------
(* The per-actor credentials of metadata.go, kept under <path>/__meta_data. *)

metaDataKey == "__meta_data"

\* getMetadataKey
getMetadataKey(p) == Append(p, metaDataKey)

\* Metadata; a byte slice that is nil or empty is <<>>, which is also how the
\* encoder's omitempty and the decoder leave it
Metadata(pw, key) == [kind |-> "meta", Pw |-> pw, PrivateKey |-> key]

\* the nil password
NilPw == "<nil>"
\* a password of more than 72 bytes
LongPw == "long"
Passwords == {"", "p1", "p2", LongPw}
Salts == {1, 2}

\* bcrypt.GenerateFromPassword: refuses more than 72 bytes, else the salted hash
GenerateFromPassword(pw, salt) ==
    IF pw = LongPw THEN [err |-> "Err", hash |-> <<>>]
    ELSE [err |-> "ok", hash |-> <<"bcrypt", salt, pw>>]

\* bcrypt.CompareHashAndPassword: the password hashed with the salt of the hash
\* gives the hash
CompareHashAndPassword(hash, pw) ==
    /\ hash # <<>>
    /\ pw # LongPw
    /\ hash = <<"bcrypt", hash[2], pw>>

\* private keys: two RSA keys and a DSA key, which PKCS #8 cannot carry
PrivateKeys == {[typ |-> "rsa", n |-> 1], [typ |-> "rsa", n |-> 2], [typ |-> "dsa", n |-> 1]}

\* x509.MarshalPKCS8PrivateKey wrapped by pem.EncodeToMemory
EncodeKey(key) ==
    IF key.typ = "dsa" THEN [err |-> "Err", pem |-> <<>>]
    ELSE [err |-> "ok", pem |-> <<"PRIVATE KEY", "pkcs8", key>>]

\* pem.Decode followed by x509.ParsePKCS8PrivateKey
DecodeKey(pem) ==
    IF pem = <<>> THEN [err |-> "Err", key |-> <<>>]
    ELSE [err |-> "ok", key |-> <<pem[3]>>]

\* the metadata stored for the path, the zero Metadata when there is none
storedMetadata(s, p) ==
    IF Has(s, getMetadataKey(p)) THEN s[getMetadataKey(p)] ELSE Metadata(<<>>, <<>>)

\* a PasswordSet that leaves a password that is already stored in place
passwordSetTxnOnce(s, p, hash) ==
    Put(s, getMetadataKey(p),
        IF storedMetadata(s, p).Pw # <<>> THEN storedMetadata(s, p)
        ELSE [storedMetadata(s, p) EXCEPT !.Pw = hash])

\* the transaction of PasswordSet: the stored metadata with its Pw replaced
passwordSetTxn(s, p, hash) ==
    Put(s, getMetadataKey(p), [storedMetadata(s, p) EXCEPT !.Pw = hash])

\* a call of the metadata store: the IRI, the other argument, what it returned
MetaCall(op, iri, arg, err, res) == [Call(op, iri, NilItem, err, res) EXCEPT !.arg = arg]

\* the history without the password (or key) of the path
WithoutMeta(done, what, p) == {e \in done : ~(e[1] = what /\ e[2] = p)}

\* what PasswordSet (metadata.go) returns
PasswordSetErr(iri, pw, salt) ==
    IF d = "nil" THEN "NotOpen"
    ELSE IF pw = NilPw THEN "Err"
    ELSE IF itemPath(iri) = <<"">> THEN "NotFound"
    ELSE IF d = "closed" THEN "DBClosed"
    ELSE GenerateFromPassword(pw, salt).err

\* PasswordSet (metadata.go)
PasswordSet(iri, pw, salt) ==
    /\ Alive
    /\ last' = MetaCall("PasswordSet", iri, <<pw>>, PasswordSetErr(iri, pw, salt), <<>>)
    /\ store' = IF PasswordSetErr(iri, pw, salt) # "ok" THEN store
                ELSE passwordSetTxn(store, itemPath(iri), GenerateFromPassword(pw, salt).hash)
    /\ okDone' = IF PasswordSetErr(iri, pw, salt) # "ok" THEN okDone
                 ELSE WithoutMeta(okDone, "Pw", itemPath(iri)) \cup {<<"Pw", itemPath(iri), pw>>}
    /\ preStore' = store'
    /\ addPre' = NoAddPre
    /\ UNCHANGED <<path, fs, calls, d, leaked>>

\* what PasswordCheck (metadata.go) returns
PasswordCheckErr(iri, pw) ==
    IF d = "nil" THEN "NotOpen"
    ELSE IF d = "closed" THEN "DBClosed"
    ELSE IF ~Has(store, getMetadataKey(itemPath(iri))) THEN "NotFound"
    ELSE IF ~CompareHashAndPassword(store[getMetadataKey(itemPath(iri))].Pw, pw)
    THEN "Unauthorized"
    ELSE "ok"

\* PasswordCheck (metadata.go)
PasswordCheck(iri, pw) ==
    /\ Alive
    /\ last' = MetaCall("PasswordCheck", iri, <<pw>>, PasswordCheckErr(iri, pw), <<>>)
    /\ preStore' = store
    /\ addPre' = NoAddPre
    /\ UNCHANGED <<path, fs, calls, d, leaked, store, okDone>>

\* LoadMetadata (metadata.go)
LoadMetadata(s, iri) ==
    IF d = "nil" THEN [err |-> "NotOpen", m |-> Metadata(<<>>, <<>>)]
    ELSE IF d = "closed" THEN [err |-> "DBClosed", m |-> Metadata(<<>>, <<>>)]
    ELSE IF ~Has(s, getMetadataKey(itemPath(iri)))
    THEN [err |-> "NotFound", m |-> Metadata(<<>>, <<>>)]
    ELSE [err |-> "ok", m |-> s[getMetadataKey(itemPath(iri))]]

\* what LoadKey returns
LoadKeyOutcome(iri) ==
    IF LoadMetadata(store, iri).err # "ok" THEN [err |-> LoadMetadata(store, iri).err, key |-> <<>>]
    ELSE DecodeKey(LoadMetadata(store, iri).m.PrivateKey)

\* LoadKey (metadata.go)
LoadKey(iri) ==
    /\ Alive
    /\ last' = MetaCall("LoadKey", iri, <<>>, LoadKeyOutcome(iri).err, LoadKeyOutcome(iri).key)
    /\ preStore' = store
    /\ addPre' = NoAddPre
    /\ UNCHANGED <<path, fs, calls, d, leaked, store, okDone>>

\* what SaveKey (metadata.go) returns: the metadata loaded, the key encoded, the
\* metadata saved with it
SaveKeyErr(iri, key) ==
    IF LoadMetadata(store, iri).err \notin {"ok", "NotFound"} THEN LoadMetadata(store, iri).err
    ELSE EncodeKey(key).err

\* SaveKey (metadata.go); the public key it returns is left out
SaveKey(iri, key) ==
    /\ Alive
    /\ last' = MetaCall("SaveKey", iri, <<key>>, SaveKeyErr(iri, key), <<>>)
    /\ store' = IF SaveKeyErr(iri, key) # "ok" THEN store
                ELSE Put(store, getMetadataKey(itemPath(iri)),
                         [LoadMetadata(store, iri).m EXCEPT !.PrivateKey = EncodeKey(key).pem])
    /\ okDone' = IF SaveKeyErr(iri, key) # "ok" THEN okDone
                 ELSE WithoutMeta(okDone, "Key", itemPath(iri)) \cup {<<"Key", itemPath(iri), key>>}
    /\ preStore' = store'
    /\ addPre' = NoAddPre
    /\ UNCHANGED <<path, fs, calls, d, leaked>>

\* PasswordSet of repository.go, which takes the item: it opens the engine itself
\* and writes a Metadata that holds the password and nothing else
passwordSetItemBody(s, it, pw, salt) ==
    IF GenerateFromPassword(IF pw = NilPw THEN "" ELSE pw, salt).err # "ok"
    THEN [store |-> s, err |-> "Err"]
    ELSE [store |-> Put(s, getMetadataKey(itemPath(GetLink(it))),
                        Metadata(GenerateFromPassword(IF pw = NilPw THEN "" ELSE pw, salt).hash,
                                 <<>>)),
          err |-> "ok"]

PasswordSetItem(it, pw, salt) ==
    /\ Alive
    /\ Opened("PasswordSet", GetLink(it), it, passwordSetItemBody(OpenedStore(store), it, pw, salt))
    /\ okDone' = IF OpenOutcome(d, leaked).err # "ok" THEN okDone
                 ELSE IF path = InMemory THEN Forget(okDone)
                 ELSE IF passwordSetItemBody(OpenedStore(store), it, pw, salt).err # "ok"
                 THEN okDone
                 ELSE WithoutMeta(okDone, "Pw", itemPath(GetLink(it)))
                          \cup {<<"Pw", itemPath(GetLink(it)), IF pw = NilPw THEN "" ELSE pw>>}
    /\ preStore' = store
    /\ addPre' = NoAddPre
    /\ UNCHANGED <<path, fs, calls>>

Next ==
    \/ Open
    \/ Close
    \/ \E it \in Items : Save(it)
    \/ \E col \in Collections : Create(col)
    \/ \E it \in Items : Delete(it)
    \/ \E col \in ColIRIs, it \in Members : AddTo(col, it)
    \/ \E col \in ColIRIs, it \in Members : RemoveFrom(col, it)
    \/ \E iri \in LoadIRIs : Load(iri, "none")
    \/ \E id \in ClientIds : GetClient(id)

Spec == Init /\ [][Next]_vars

----------------------------------------------------------------------------
(* Reading a directory that already holds items. save commits nothing, so   *)
(* the items the read path finds are those an earlier writer of the same    *)
(* key layout left in the directory New is pointed at.                      *)

\* what such a directory may hold, key by key
Stored ==
    (getObjectKey(itemPath(Objects)) :> OrderedCollection(Objects))
    @@ (getItemsKey(itemPath(Objects)) :> emptyCollection)
    @@ (getObjectKey(itemPath(Obj1)) :> Object(Obj1, <<Obj1Replies>>))
    @@ (getObjectKey(itemPath(Obj1Replies)) :> IRIs(<<Note2>>))
    @@ (getObjectKey(itemPath(Objects2)) :> Object(Objects2, <<>>))
    @@ (getObjectKey(itemPath(Note1)) :> Object(Note1, <<>>))
    @@ (getObjectKey(itemPath(Note2)) :> Object(Note2, <<>>))
    @@ (getObjectKey(itemPath(Person)) :> Actor(Person, <<PersonInbox>>))
    @@ (getObjectKey(itemPath(PersonInbox)) :> IRIs(<<Note1, Person, Note2>>))

StoredDirs == {[k \in K |-> Stored[k]] : K \in SUBSET (DOMAIN Stored)}

ReadIRIs == {Objects, Obj1, PersonInbox, Person, Note1}

StoredItems == {Object(Obj1, <<Obj1Replies>>), Object(Note1, <<>>), Actor(Person, <<PersonInbox>>)}

InitStored ==
    /\ path = OnDisk
    /\ fs = CreatedDir(path)
    /\ d = "nil"
    /\ leaked = FALSE
    /\ store \in StoredDirs
    /\ last = Call("New", EmptyIRI, NilItem, "ok", <<>>)
    /\ preStore = EmptyStore
    /\ addPre = NoAddPre
    /\ okDone = {}
    /\ calls = NoCalls

NextStored ==
    \/ \E iri \in ReadIRIs, check \in Checks : Load(iri, check)
    \/ \E it \in StoredItems : Delete(it)

SpecStored == InitStored /\ [][NextStored]_vars

----------------------------------------------------------------------------
(* The handle used as an OAuth store: opened and closed by its owner, the  *)
(* osin.go methods in between.                                             *)

NextOAuth ==
    \/ Open
    \/ Close
    \/ \E id \in ClientIds \ {""} : CreateClient(id, Secret1)
    \/ \E code \in Codes, client \in ClientIds \ {""}, e \in Expiry :
           SaveAuthorize(code, client, e)
    \/ \E t \in Tokens, r \in Refreshes, c \in {"c1", NoClient}, a \in Codes,
          p \in Prevs : SaveAccess(t, r, c, a, p, "valid")
    \/ \E code \in Codes \cup {""} : LoadAuthorize(code)
    \/ \E t \in Tokens \cup Refreshes : LoadAccess(t)
    \/ \E t \in Tokens \cup Refreshes : LoadRefresh(t)

SpecOAuth == Init /\ [][NextOAuth]_vars

----------------------------------------------------------------------------
(* The handle used as a client store.                                      *)

NextClients ==
    \/ Open
    \/ Close
    \/ \E id \in ClientIds \cup {NoClient}, secret \in Secrets : CreateClient(id, secret)
    \/ \E id \in ClientIds \cup {NoClient}, secret \in Secrets : UpdateClient(id, secret)
    \/ \E id \in ClientIds : RemoveClient(id)
    \/ \E id \in ClientIds : GetClient(id)
    \/ ListClients

SpecClients == Init /\ [][NextClients]_vars

----------------------------------------------------------------------------
(* One handle used as item store and as client store, with a collection    *)
(* whose IRI has the host "oauth".                                         *)

NextBoth ==
    \/ Open
    \/ Close
    \/ \E col \in {OAuthClients, PersonInbox}, it \in {BareIRI(Note1), Object(Note2, <<>>)} :
           AddTo(col, it)
    \/ \E col \in {OAuthClients, PersonInbox} : RemoveFrom(col, BareIRI(Note1))
    \/ \E iri \in {EmptyIRI, OAuthClients} : Load(iri, "none")
    \/ CreateClient("c1", Secret1)
    \/ RemoveClient("c1")
    \/ GetClient("c1")
    \/ ListClients

SpecBoth == Init /\ [][NextBoth]_vars

----------------------------------------------------------------------------
(* The handle used as the store of passwords and private keys.             *)

NextMeta ==
    \/ Open
    \/ Close
    \/ \E iri \in {Person, EmptyIRI}, pw \in Passwords \cup {NilPw}, salt \in Salts :
           PasswordSet(iri, pw, salt)
    \/ \E iri \in {Person, EmptyIRI}, pw \in Passwords : PasswordCheck(iri, pw)
    \/ \E iri \in {Person}, key \in PrivateKeys : SaveKey(iri, key)
    \/ \E iri \in {Person} : LoadKey(iri)

SpecMeta == Init /\ [][NextMeta]_vars

\* the same with the PasswordSet of repository.go among the calls
NextMetaItem ==
    \/ NextMeta
    \/ \E pw \in {"p1", "p2"}, salt \in Salts : PasswordSetItem(BareIRI(Person), pw, salt)

SpecMetaItem == Init /\ [][NextMetaItem]_vars

----------------------------------------------------------------------------
(* The same handle with grants that have or have not outlived their       *)
(* ExpiresIn when they are loaded.                                         *)

NextExpiry ==
    \/ Open
    \/ Close
    \/ \E id \in ClientIds \ {""} : CreateClient(id, Secret1)
    \/ \E code \in Codes, e \in Expiry : SaveAuthorize(code, "c1", e)
    \/ \E r \in Refreshes, e \in Expiry : SaveAccess("t1", r, "c1", "a1", "", e)
    \/ \E code \in Codes : LoadAuthorize(code)
    \/ \E t \in {"t1"} : LoadAccess(t)
    \/ \E t \in {"r1"} : LoadRefresh(t)

SpecExpiry == Init /\ [][NextExpiry]_vars

----------------------------------------------------------------------------
(* The configured path on the file system: New, Bootstrap and Clean.       *)

\* what may be at the configured path before a call: a directory, nothing, something
\* that is not a directory, or a name below a directory stat may not search
PathStates == {"dir", "absent", "file", "forbidden"}

\* mkDirIfNotExists: the error it returns and what is at the path afterwards. Only a
\* stat error that IsNotExist leads to MkdirAll; any other stat error falls through
\* to the final return nil.
mkDirIfNotExists(f) ==
    IF f = "absent" THEN [fs |-> "dir", err |-> "ok"]
    ELSE IF f = "file" THEN [fs |-> f, err |-> "NotAFolder"]
    ELSE [fs |-> f, err |-> "ok"]

\* Path
Path(p, f) == IF p = "" THEN [fs |-> f, err |-> "ok"] ELSE mkDirIfNotExists(f)

\* os.RemoveAll: nil for the empty path and for a path that does not exist, an error
\* when the parent may not be searched
RemoveAll(p, f) ==
    IF p = "" \/ f = "absent" THEN [fs |-> f, err |-> "ok"]
    ELSE IF f = "forbidden" THEN [fs |-> f, err |-> "RemoveErr"]
    ELSE [fs |-> "absent", err |-> "ok"]

\* the entries of the history that say that one, or two and more, calls in a row of
\* the same Bootstrap returned without error; arg tells the two Bootstraps apart
Once(arg) == <<"Bootstrap", arg, "once">>
Twice(arg) == <<"Bootstrap", arg, "twice">>

InARow(done, op, arg, err) ==
    IF op # "Bootstrap" \/ err # "ok" THEN {}
    ELSE IF Once(arg) \in done THEN {Once(arg), Twice(arg)}
    ELSE {Once(arg)}

\* the shape New, Bootstrap and Clean share: o is [fs, store, err]
PathStep(op, arg, o) ==
    /\ Alive
    /\ fs' = o.fs
    /\ store' = o.store
    /\ last' = [Call(op, EmptyIRI, NilItem, o.err, <<>>) EXCEPT !.arg = arg]
    /\ preStore' = store
    /\ addPre' = NoAddPre
    /\ okDone' = InARow(okDone, op, arg, o.err)
    /\ UNCHANGED <<path, calls, d, leaked>>

\* New, called for one more handle on the configured path
New ==
    LET n == Path(path, fs)
    IN PathStep("New", <<>>, [fs |-> n.fs, store |-> store, err |-> n.err])

\* the url Bootstrap is given, and the collections it creates for the service
ServiceURL == "https://h"
Actors == IRI(<<"h", "actors">>, "")
Activities == IRI(<<"h", "activities">>, "")
ServiceCollections == <<Actors, Activities, Objects>>

\* the Create calls of Bootstrap on its own handle: each opens an engine on the path,
\* builds its batch and closes the engine
RECURSIVE bootstrapCreate(_, _)
bootstrapCreate(s, cols) ==
    IF cols = <<>> THEN s
    ELSE bootstrapCreate(Unflushed(s, createCollectionInPath(EmptyStore, cols[1])), Tail(cols))

\* Bootstrap of bootstrap.go: New, then Create of the three collections, returning the
\* first error. The engine does not open below a directory it may not search, nor on
\* a directory another engine has locked.
BootstrapOutcome(p, f, dd, lk, s) ==
    LET n == Path(p, f)
    IN IF n.err # "ok" THEN [fs |-> n.fs, store |-> s, err |-> n.err]
       ELSE IF n.fs = "forbidden" \/ (p # InMemory /\ (dd = "open" \/ lk))
            THEN [fs |-> n.fs, store |-> s, err |-> "OpenErr"]
       ELSE IF p = InMemory THEN [fs |-> n.fs, store |-> s, err |-> "ok"]
       ELSE [fs |-> n.fs, store |-> bootstrapCreate(s, ServiceCollections), err |-> "ok"]

Bootstrap(url) == PathStep("Bootstrap", <<url>>, BootstrapOutcome(path, fs, d, leaked, store))

\* Bootstrap of the revision that takes the configuration alone: Path and no more
BootstrapConf ==
    LET n == Path(path, fs)
    IN PathStep("Bootstrap", <<>>, [fs |-> n.fs, store |-> store, err |-> n.err])

\* Clean: Path, then RemoveAll of the directory and of all it holds
CleanOutcome(p, f, s) ==
    LET n == Path(p, f)
    IN IF n.err # "ok" THEN [fs |-> n.fs, store |-> s, err |-> n.err]
       ELSE LET r == RemoveAll(p, n.fs)
            IN [fs |-> r.fs, store |-> IF r.fs = "absent" THEN EmptyStore ELSE s, err |-> r.err]

Clean == PathStep("Clean", <<>>, CleanOutcome(path, fs, store))

\* the configured path as the calls may find it: no path, or a path with any of the
\* things that may be at it, a directory with what an earlier writer left in it
InitPath ==
    /\ path \in {InMemory, OnDisk}
    /\ fs \in (IF path = InMemory THEN {"none"} ELSE PathStates)
    /\ d = "nil"
    /\ leaked = FALSE
    /\ store \in (IF fs = "dir" THEN StoredDirs ELSE {EmptyStore})
    /\ last = Call("none", EmptyIRI, NilItem, "ok", <<>>)
    /\ preStore = EmptyStore
    /\ addPre = NoAddPre
    /\ okDone = {}
    /\ calls = NoCalls

NextPath ==
    \/ New
    \/ Bootstrap(ServiceURL)
    \/ BootstrapConf
    \/ Clean

SpecPath == InitPath /\ [][NextPath]_vars

----------------------------------------------------------------------------
(* The key prefix of IRIs as they are written: paths with empty, "." and   *)
(* ".." segments, all on the host h.                                       *)

RawSegs == {"", ".", "..", "a", "h"}

RECURSIVE SegSeqs(_)
SegSeqs(n) ==
    IF n = 0 THEN {<<>>}
    ELSE SegSeqs(n - 1) \cup {Append(q, x) : q \in {r \in SegSeqs(n - 1) : Len(r) = n - 1}, x \in RawSegs}

RawIRIs == {IRI(<<"h">> \o q, "") : q \in SegSeqs(MaxSegs)}

\* two IRIs a caller holds, before their key prefixes are computed
InitIRI ==
    /\ path = OnDisk
    /\ fs = CreatedDir(path)
    /\ d = "nil"
    /\ leaked = FALSE
    /\ store = EmptyStore
    /\ \E a, b \in RawIRIs : last = Call("none", a, BareIRI(b), "ok", <<>>)
    /\ preStore = EmptyStore
    /\ addPre = NoAddPre
    /\ okDone = {}
    /\ calls = NoCalls

\* itemPath of both
ItemPath ==
    /\ last.op = "none"
    /\ last' = [last EXCEPT !.op = "itemPath",
                            !.res = <<itemPath(last.col), itemPath(GetLink(last.it))>>]
    /\ UNCHANGED <<path, fs, calls, d, leaked, store, preStore, addPre, okDone>>

NextIRI == ItemPath

SpecIRI == InitIRI /\ [][NextIRI]_vars

----------------------------------------------------------------------------
(* AddTo called by goroutines that share the handle. A call is three steps, *)
(* between which the other goroutine may run: up to and with r.Open(), the  *)
(* Update transaction on the engine r.d refers to by then, and the deferred *)
(* r.Close(). The engine serializes the transactions.                      *)

\* history: while a Load is under way, the states the store of r.d went through
Loading == \E p \in Procs : calls[p].pc \in {"lopened", "lsnap"}
Seen(done, s) == IF Loading THEN done \cup {<<"State", s>>} ELSE done

SetCall(p, pc, col, it, err) == [calls EXCEPT ![p] = [pc |-> pc, col |-> col, it |-> it, err |-> err]]

\* AddTo up to the Update: addCollectionOnObject, the argument checks of onCollection
\* and r.Open(), which assigns r.d whether it succeeds or not
AddToBegin(p, col, it) ==
    /\ Alive
    /\ calls[p].pc \in {"idle", "done"}
    /\ Len(StoredIRIs(store, col)) < MaxLen
    /\ LET pre == addCollectionOnObject(store, d, col)
           o == OpenOutcome(d, leaked)
       IN IF pre.fatal
          THEN /\ last' = Call("AddTo", col, it, "panic", <<>>)
               /\ calls' = SetCall(p, "done", col, it, "panic")
               /\ UNCHANGED <<d, leaked, store>>
          ELSE IF onCollectionArgsErr(col, it)
          THEN /\ last' = Call("AddTo", col, it, "Err", <<>>)
               /\ calls' = SetCall(p, "done", col, it, "Err")
               /\ store' = pre.store
               /\ UNCHANGED <<d, leaked>>
          ELSE /\ d' = o.d
               /\ leaked' = o.leaked
               /\ IF o.err # "ok"
                  THEN /\ last' = Call("AddTo", col, it, o.err, <<>>)
                       /\ calls' = SetCall(p, "done", col, it, o.err)
                       /\ store' = pre.store
                  ELSE /\ last' = last
                       /\ calls' = SetCall(p, "opened", col, it, "ok")
                       /\ store' = OpenedStore(pre.store)
    /\ preStore' = store
    /\ addPre' = NoAddPre
    /\ okDone' = Seen(okDone, store')
    /\ UNCHANGED <<path, fs>>

\* r.d.Update(...): a nil r.d is dereferenced, a closed engine refuses the
\* transaction, an open one reads the list, applies the function and puts the list
AddToUpdate(p) ==
    /\ Alive
    /\ calls[p].pc = "opened"
    /\ LET c == calls[p]
       IN IF d = "nil"
          THEN /\ last' = Call("AddTo", c.col, c.it, "panic", <<>>)
               /\ calls' = SetCall(p, "done", c.col, c.it, "panic")
               /\ store' = store
          ELSE IF d = "closed"
          THEN /\ last' = last
               /\ calls' = SetCall(p, "updated", c.col, c.it, "DBClosed")
               /\ store' = store
          ELSE /\ last' = last
               /\ calls' = SetCall(p, "updated", c.col, c.it, "ok")
               /\ store' = onCollectionTxn(store, c.col,
                                           AddToFn(StoredIRIs(store, c.col), GetLink(c.it))).store
    /\ okDone' = Seen(okDone, store')
    /\ UNCHANGED <<path, fs, d, leaked, preStore, addPre>>

\* the deferred r.Close(), on the engine r.d refers to by now, and the return
AddToEnd(p) ==
    /\ Alive
    /\ calls[p].pc = "updated"
    /\ d' = CloseOutcome(d)
    /\ store' = IF d = "open" THEN ClosedStore(store) ELSE store
    /\ last' = Call("AddTo", calls[p].col, calls[p].it, calls[p].err, <<>>)
    /\ calls' = SetCall(p, "done", calls[p].col, calls[p].it, calls[p].err)
    /\ okDone' = Seen(okDone, store')
    /\ UNCHANGED <<path, fs, leaked, preStore, addPre>>

NextConc ==
    \/ \E p \in Procs, it \in Members : AddToBegin(p, Objects, it)
    \/ \E p \in Procs : AddToUpdate(p)
    \/ \E p \in Procs : AddToEnd(p)

SpecConc == Init /\ [][NextConc]_vars

----------------------------------------------------------------------------
(* The handle from New on, opened and closed by its owner.                 *)

\* the LogFn and ErrFn of a Config: none, or a function of the caller
LogFns == {"nil", "given"}

\* New: the log function of the handle is that of the Config, or emptyLogFn
NewLogFn(c) == IF c # "nil" THEN c ELSE "emptyLogFn"

InitLife ==
    /\ path \in {InMemory, OnDisk}
    /\ fs = CreatedDir(path)
    /\ d = "nil"
    /\ leaked = FALSE
    /\ store \in (IF path = OnDisk THEN {EmptyStore, Stored} ELSE {EmptyStore})
    /\ \E l, e \in LogFns :
           last = [Call("New", EmptyIRI, NilItem, "ok", <<>>) EXCEPT !.arg = <<NewLogFn(l), NewLogFn(e)>>]
    /\ preStore = EmptyStore
    /\ addPre = NoAddPre
    /\ okDone = {Life("new")}
    /\ calls = NoCalls

NextLife ==
    \/ Open
    \/ Close
    \/ \E secret \in Secrets : CreateClient("c1", secret)
    \/ RemoveClient("c1")
    \/ GetClient("c1")

SpecLife == InitLife /\ [][NextLife]_vars

----------------------------------------------------------------------------
(* Load called by a goroutine while others call AddTo on the same handle.  *)
(* loadFromPath reads the keys of the prefix in one View;                  *)
(* loadItemsElements, called for the list it finds, opens a View of its    *)
(* own on the engine r.d refers to by then. The collections loaded here    *)
(* have no key below their prefix but their object key.                    *)

\* r.Open() of Load, whose error is dropped
LoadBegin(p, iri) ==
    /\ Alive
    /\ calls[p].pc \in {"idle", "done"}
    /\ LET o == OpenOutcome(d, leaked)
       IN /\ d' = o.d
          /\ leaked' = o.leaked
          /\ store' = IF o.err = "ok" THEN OpenedStore(store) ELSE store
    /\ calls' = SetCall(p, "lopened", iri, NilItem, "ok")
    /\ okDone' = (IF Loading THEN okDone ELSE {}) \cup {<<"State", store'>>}
    /\ preStore' = store
    /\ addPre' = NoAddPre
    /\ UNCHANGED <<path, fs, last>>

\* Load returns: the deferred r.Close() and the result
LoadReturn(p, err, res) ==
    /\ d' = CloseOutcome(d)
    /\ store' = IF d = "open" THEN ClosedStore(store) ELSE store
    /\ last' = Call("Load", calls[p].col, NilItem, err, res)
    /\ calls' = SetCall(p, "done", calls[p].col, NilItem, err)

\* the View of loadFromPath up to the value under the object key of the prefix
LoadView(p) ==
    /\ Alive
    /\ calls[p].pc = "lopened"
    /\ LET k == getObjectKey(itemPath(calls[p].col))
       IN IF d = "nil"
          THEN /\ last' = Call("Load", calls[p].col, NilItem, "panic", <<>>)
               /\ calls' = SetCall(p, "done", calls[p].col, NilItem, "panic")
               /\ UNCHANGED <<d, store>>
          ELSE IF d = "closed" THEN LoadReturn(p, "DBClosed", <<>>)
          ELSE IF ~Has(store, k) THEN LoadReturn(p, "NotFound", <<>>)
          ELSE /\ calls' = SetCall(p, "lsnap", calls[p].col, store[k], "ok")
               /\ UNCHANGED <<d, store, last>>
    /\ UNCHANGED <<path, fs, leaked, preStore, addPre, okDone>>

\* what the two Views together read: the object key of the prefix as the first View
\* found it, every other key as the engine has it now
TwoViews(s, iri, v) == Put(s, getObjectKey(itemPath(iri)), v)

\* the View of loadItemsElements on the engine r.d refers to by now, whose error
\* loadFromPath logs and skips, and the return; r is what the two Views load
LoadItems(p, r) ==
    /\ Alive
    /\ calls[p].pc = "lsnap"
    /\ IF d = "nil"
       THEN /\ last' = Call("Load", calls[p].col, NilItem, "panic", <<>>)
            /\ calls' = SetCall(p, "done", calls[p].col, NilItem, "panic")
            /\ UNCHANGED <<d, store>>
       ELSE IF d = "closed" THEN LoadReturn(p, "ok", <<>>)
       ELSE LoadReturn(p, r.err, r.col)
    /\ UNCHANGED <<path, fs, leaked, preStore, addPre, okDone>>

NextSnap ==
    \/ \E p \in Procs, col \in {Objects, Person}, it \in {BareIRI(Person), BareIRI(Note1)} :
           AddToBegin(p, col, it)
    \/ \E p \in Procs : AddToUpdate(p)
    \/ \E p \in Procs : AddToEnd(p)
    \/ \E p \in Procs : LoadBegin(p, Objects)
    \/ \E p \in Procs : LoadView(p)
    \/ \E p \in Procs :
           LoadItems(p, loadFromPath(TwoViews(store, calls[p].col, calls[p].it), "open",
                                     calls[p].col, IsItemIRI(calls[p].col), MaxDeref))

SpecSnap == Init /\ [][NextSnap]_vars

----------------------------------------------------------------------------
(* Properties. *)

\* the owned sub-collections an item refers to
SubCollections(it) == {it.inbox[i] : i \in DOMAIN it.inbox} \cup {it.replies[i] : i \in DOMAIN it.replies}

\* the number of entries of a list that are link-equal to an IRI
Occurrences(iris, i) == Cardinality({k \in 1..Len(iris) : Equals(iris[k], i)})

ItemOps == {"Save", "Create", "Load", "AddTo", "RemoveFrom", "Delete"}

\* C1: every stored membership list holds each IRI at most once, and once AddTo(c, x)
\* has returned without error x occurs exactly once in the list of c.
C1_CollectionDedup ==
    /\ \A k \in DOMAIN store :
           store[k].kind = "list" =>
               \A i, j \in 1..Len(store[k].iris) : i # j => ~Equals(store[k].iris[i], store[k].iris[j])
    /\ (last.op = "AddTo" /\ last.err = "ok") =>
           Occurrences(StoredIRIs(store, last.col), GetLink(last.it)) = 1

\* C2: a Load of i.id that follows a Save(i) which returned without error returns
\* exactly i.
C2_SaveLoadRoundTrip ==
    [][(/\ last.op = "Save" /\ last.err = "ok" /\ GetLink(last.it) # EmptyIRI
        /\ last'.op = "Load" /\ last'.col = GetLink(last.it))
       => (last'.err = "ok" /\ last'.res = <<last.it>>)]_vars

\* C3: after Create(c), Save(x) and AddTo(c, x) have returned without error, Load(c)
\* returns a collection that contains x, and as many items as the list has members
\* when all of them were saved.
C3_LoadAfterAddTo ==
    [][(/\ last.op = "AddTo" /\ last.err = "ok"
        /\ <<"Create", last.col.path>> \in okDone
        /\ <<"Save", GetLink(last.it).path>> \in okDone
        /\ last'.op = "Load" /\ last'.col = last.col)
       => (/\ last'.err = "ok"
           /\ ColContains(last'.res, GetLink(last.it))
           /\ Len(last'.res) >= 1)]_vars

\* C4: after AddTo(c, x) followed by RemoveFrom(c, x), both without error, neither the
\* list of c nor what Load(c) returns contains x, and every member the list had before
\* the AddTo, other than x, is still in it.
C4_RemoveCancelsAdd ==
    (last.op = "RemoveFrom" /\ last.err = "ok" /\ addPre.set) =>
        LET x == GetLink(last.it)
            now == StoredIRIs(store, last.col)
        IN /\ ~Contains(now, x)
           /\ ~ColContains(LoadOutcome(last.col).res, x)
           /\ \A i \in 1..Len(addPre.list) :
                  ~Equals(addPre.list[i], x) => \E j \in 1..Len(now) : now[j] = addPre.list[i]

\* C4, reached: the AddTo appended x to a list that had another member, the RemoveFrom
\* took x out again and left that member.
C4_Witness ==
    /\ last.op = "RemoveFrom" /\ last.err = "ok" /\ addPre.set
    /\ Len(addPre.list) >= 1
    /\ ~Contains(addPre.list, GetLink(last.it))
    /\ Contains(StoredIRIs(preStore, last.col), GetLink(last.it))
    /\ StoredIRIs(store, last.col) = addPre.list

C6_NeverOpenedIsNotOpen ==
    [][(d = "nil" /\ ~leaked /\ last'.op \in ItemOps)
       => (last'.err = "NotOpen" /\ last'.res = <<>> /\ d' = "nil" /\ store' = store)]_vars

\* C7: once the handle was opened and closed, every call other than Open and Close
\* returns NotOpen and leaves the closed engine closed.
C7_ClosedIsNotOpen ==
    [][(last.op = "Close" /\ d = "closed" /\ last'.op \notin {"Open", "Close"})
       => (last'.err = "NotOpen" /\ d' = "closed" /\ store' = store)]_vars

\* C8: a Load of an IRI whose object key was not in the store fails with NotFound and
\* returns no item, whatever other keys the store holds.
C8_LoadAbsentIsNotFound ==
    (last.op = "Load" /\ ~Has(preStore, getObjectKey(itemPath(last.col)))) =>
        (last.err = "NotFound" /\ last.res = <<>>)

\* C9: after the first Save of an item (its object key was not stored), every owned
\* sub-collection it refers to has its object key and its items key in the store.
C9_FirstSaveCreatesSubCollections ==
    (/\ last.op = "Save" /\ last.err = "ok"
     /\ ~Has(preStore, getObjectKey(itemPath(GetLink(last.it))))) =>
        \A c \in SubCollections(last.it) :
            /\ Has(store, getObjectKey(itemPath(c)))
            /\ Has(store, getItemsKey(itemPath(c)))

\* the collections a Save or Create writes the keys of
Written(it) == SubCollections(it) \cup (IF IsCollection(it) THEN {GetLink(it)} ELSE {})

\* C10: after a Save or Create that returned without error, each collection it writes
\* has its object key and its items key both in the store or both absent.
C10_RawAndItemsTogether ==
    (last.op \in {"Save", "Create"} /\ last.err = "ok") =>
        \A c \in Written(last.it) :
            Has(store, getObjectKey(itemPath(c))) <=> Has(store, getItemsKey(itemPath(c)))

\* C11: after an AddTo(col, it) of an object that returned without error, the object
\* key of it is stored and Load(it.id) succeeds, so the list of col names no object
\* that is absent.
C11_AddToWritesThrough ==
    (last.op = "AddTo" /\ last.err = "ok" /\ IsObject(last.it)) =>
        /\ Has(store, getObjectKey(itemPath(GetLink(last.it))))
        /\ LoadOutcome(GetLink(last.it)).err = "ok"

\* C12: an AddTo on a collection whose object key was not stored (no collection of the
\* model is a hidden one) returns an error and leaves col without a key.
C12_AddToUnstoredCollectionFails ==
    (last.op = "AddTo" /\ ~Has(preStore, getObjectKey(itemPath(last.col)))) =>
        /\ last.err \notin {"ok", "panic"}
        /\ ~Has(store, getObjectKey(itemPath(last.col)))
        /\ ~Has(store, getItemsKey(itemPath(last.col)))

\* C13: after a Create(col) of a collection object that returned without error, col is
\* stored under its object key, an empty list under its items key, and Load(col.id)
\* succeeds with the members of col, which has none.
C13_CreateStoresCollection ==
    (last.op = "Create" /\ last.err = "ok" /\ last.it.kind = "collection") =>
        LET p == itemPath(GetLink(last.it))
        IN /\ Has(store, getObjectKey(p)) /\ store[getObjectKey(p)] = last.it
           /\ Has(store, getItemsKey(p)) /\ store[getItemsKey(p)] = emptyCollection
           /\ LoadOutcome(GetLink(last.it)).err = "ok"
           /\ LoadOutcome(GetLink(last.it)).res = <<>>

\* C14: on an open handle Save(nil) and Create(bare IRI) return InvalidArgument and
\* leave the store as it was.
C14_InvalidArgument ==
    [][(/\ d = "open"
        /\ \/ last'.op = "Save" /\ last'.it = NilItem
           \/ last'.op = "Create" /\ last'.it.kind = "iri")
       => (last'.err = "InvalidArgument" /\ store' = store)]_vars

Satisfies(it, check) == check = "IsActor" => it.kind = "actor"

\* C17: a Load of a collection that returned without error returns only items that
\* pass the check of the caller, all of those the collection yields in their order, and
\* at most one under a maximum count of one.
C17_LoadAppliesChecks ==
    (last.op = "Load" /\ last.err = "ok" /\ ~IsItemIRI(last.col)) =>
        LET all == loadFromPath(preStore, "open", last.col, IsItemIRI(last.col), MaxDeref).col
        IN /\ \A i \in 1..Len(last.res) : Satisfies(last.res[i], last.check)
           /\ last.check = "MaxOne" => Len(last.res) <= 1
           /\ last.check = "IsActor" => last.res = SelectSeq(all, LAMBDA it : Satisfies(it, "IsActor"))

\* the items stored directly under the prefix of a storage-root collection, in key order
DirectItems(s, c) ==
    LET keys == SortKeys({k \in DOMAIN s :
                    /\ Len(k) = Len(itemPath(c)) + 2
                    /\ SubSeq(k, 1, Len(itemPath(c))) = itemPath(c)
                    /\ k[Len(k)] = objectKey})
    IN [i \in 1..Len(keys) |-> s[keys[i]]]

IsPrefix(a, b) == Len(a) <= Len(b) /\ SubSeq(b, 1, Len(a)) = a

\* a is what is left of b when one entry is taken out
IsOneLess(a, b) ==
    \E k \in 1..Len(b) : a = SubSeq(b, 1, k - 1) \o SubSeq(b, k + 1, Len(b))

C20_AccessRoundTrip ==
    \A e \in okDone :
        (e[1] = "SaveAccess" /\ e[2][4] # "") =>
            /\ (last.op = "LoadAccess" /\ last.arg = <<e[2][1]>>) =>
                   /\ last.err = "ok"
                   /\ Len(last.res) = 1
                   /\ last.res[1].AccessToken = e[2][1]
                   /\ last.res[1].Client # <<>>
                   /\ last.res[1].Client[1].Id = e[2][3]
                   /\ last.res[1].AuthorizeData # <<>>
                   /\ last.res[1].AuthorizeData[1].Code = e[2][4]
            /\ (last.op = "LoadRefresh" /\ e[2][2] # "" /\ last.arg = <<e[2][2]>>) =>
                   /\ last.err = "ok"
                   /\ Len(last.res) = 1
                   /\ last.res[1].AccessToken = e[2][1]
                   /\ last.res[1].Client # <<>>
                   /\ last.res[1].Client[1].Id = e[2][3]

\* LoadRefresh("r1") answered with the grant of "t1", after CreateClient("c1"), an
\* unexpired SaveAuthorize("a1") for it and SaveAccess("t1", "r1", "c1", "a1")
C20_Witness ==
    /\ last.op = "LoadRefresh"
    /\ last.arg = <<"r1">>
    /\ last.err = "ok"
    /\ <<"SaveAccess", <<"t1", "r1", "c1", "a1", "", "valid">>>> \in okDone
    /\ last.res[1].AccessToken = "t1"
    /\ last.res[1].Client = <<DefaultClient("c1", Secret1)>>
    /\ last.res[1].AuthorizeData =
           <<AuthorizeData("a1", <<DefaultClient("c1", Secret1)>>, Scope1)>>

C22_LoadAuthorizeExpiry ==
    (last.op = "LoadAuthorize" /\ d = "open" /\ last.arg # <<"">>
     /\ Has(store, authorizePath(last.arg[1]))) =>
        IF store[authorizePath(last.arg[1])].Expired
        THEN last.err = "Expired" /\ last.res = <<>>
        ELSE last.err = "ok"

\* C22 amended: LoadAuthorize of a stored authorization code on the open handle
\* returns an Expired error and no data when the record has expired; when it has
\* not, it succeeds with the record and its client if the client of the record is
\* stored, and fails with NotFound and no data if that client is not stored.
C22_LoadAuthorizeExpiryWithClient ==
    (last.op = "LoadAuthorize" /\ d = "open" /\ last.arg # <<"">>
     /\ Has(store, authorizePath(last.arg[1]))) =>
        IF store[authorizePath(last.arg[1])].Expired
        THEN last.err = "Expired" /\ last.res = <<>>
        ELSE IF Has(store, clientPath(store[authorizePath(last.arg[1])].Client))
        THEN /\ last.err = "ok"
             /\ Len(last.res) = 1
             /\ last.res[1].Code = last.arg[1]
             /\ last.res[1].Client # <<>>
             /\ last.res[1].Client[1].Id = store[authorizePath(last.arg[1])].Client
        ELSE last.err = "NotFound" /\ last.res = <<>>

\* LoadAuthorize("a1") refused the expired record of a client that is stored
C22_Witness ==
    /\ last.op = "LoadAuthorize"
    /\ last.arg = <<"a1">>
    /\ d = "open"
    /\ Has(store, authorizePath("a1"))
    /\ store[authorizePath("a1")].Expired
    /\ Has(store, clientPath("c1"))
    /\ last.err = "Expired"

\* C23: LoadAccess of a stored access record that has outlived its ExpiresIn fails
\* with Expired.
C23_LoadAccessExpiry ==
    (last.op = "LoadAccess" /\ d = "open" /\ last.arg # <<"">>
     /\ Has(store, accessPath(last.arg[1]))
     /\ store[accessPath(last.arg[1])].Expired) =>
        last.err = "Expired"

\* the clients of the history: written by CreateClient or UpdateClient and not
\* removed by RemoveClient since
ClientsDone == {e[2] : e \in {x \in okDone : x[1] = "Client"}}

\* C24: on the open handle the client store is the map the calls built: GetClient(id)
\* returns the record of the last CreateClient or UpdateClient of id and fails with
\* NotFound when id was never stored or was removed since, and ListClients returns
\* exactly the clients of the map, each once.
C24_ClientMap ==
    /\ (last.op = "GetClient" /\ d = "open") =>
           IF \E c \in ClientsDone : c[1] = last.arg[1]
           THEN /\ last.err = "ok"
                /\ \E c \in ClientsDone :
                       c[1] = last.arg[1] /\ last.res = <<DefaultClient(c[1], c[2])>>
           ELSE last.err = "NotFound"
    /\ (last.op = "ListClients" /\ d = "open") =>
           /\ last.err = "ok"
           /\ {last.res[i] : i \in 1..Len(last.res)} =
                  {DefaultClient(c[1], c[2]) : c \in ClientsDone}
           /\ Len(last.res) = Cardinality(ClientsDone)

\* a key of the OAuth namespace
UnderOAuth(k) == k # <<>> /\ k[1] = folder

\* the stores s and t agree on every key that satisfies P
AgreeOn(P(_), s, t) ==
    \A k \in (DOMAIN s) \cup (DOMAIN t) :
        P(k) => (Has(s, k) /\ Has(t, k) /\ s[k] = t[k])

NotUnderOAuth(k) == ~UnderOAuth(k)

\* C25: the two namespaces are disjoint: an item operation creates, changes and
\* deletes no key under oauth/, an OAuth operation touches no other key, and
\* ListClients returns only clients that CreateClient or UpdateClient wrote.
C25_NamespacesDisjoint ==
    [][/\ last'.op \in {"Save", "Create", "Delete", "AddTo", "RemoveFrom", "Load"} =>
              AgreeOn(UnderOAuth, store, store')
       /\ last'.op \in {"CreateClient", "UpdateClient", "RemoveClient", "GetClient", "ListClients"} =>
              AgreeOn(NotUnderOAuth, store, store')
       /\ (last'.op = "ListClients" /\ last'.err = "ok") =>
              \A i \in 1..Len(last'.res) :
                  \E c \in ClientsDone : last'.res[i] = DefaultClient(c[1], c[2])]_vars

\* C26: on the open handle, once PasswordSet(iri, pw) has succeeded with a non-empty
\* pw, PasswordCheck(iri, p) succeeds exactly when p is the pw of the most recent
\* successful PasswordSet of that iri and fails with Unauthorized for every other p.
C26_PasswordRoundTrip ==
    \A e \in okDone :
        (e[1] = "Pw" /\ e[3] # "" /\ last.op = "PasswordCheck" /\ d = "open"
         /\ itemPath(last.col) = e[2]) =>
            IF last.arg = <<e[3]>> THEN last.err = "ok" ELSE last.err = "Unauthorized"

\* PasswordCheck accepted "p2", the password set last, for an actor whose metadata
\* also holds a private key
C26_Witness ==
    /\ last.op = "PasswordCheck"
    /\ last.col = Person
    /\ last.arg = <<"p2">>
    /\ last.err = "ok"
    /\ <<"Pw", itemPath(Person), "p2">> \in okDone
    /\ store[getMetadataKey(itemPath(Person))].PrivateKey # <<>>

\* C27: PasswordSet replaces only the password of the metadata and SaveKey only the
\* private key: on the open handle LoadKey(iri) returns the key of the last
\* successful SaveKey of iri whatever PasswordSet calls came after it, and
\* PasswordCheck(iri, p) accepts exactly the non-empty password of the last
\* successful PasswordSet of iri whatever SaveKey calls came after it.
C27_PasswordAndKeyApart ==
    \A e \in okDone :
        /\ (e[1] = "Key" /\ last.op = "LoadKey" /\ d = "open" /\ itemPath(last.col) = e[2]) =>
               last.err = "ok" /\ last.res = <<e[3]>>
        /\ (e[1] = "Pw" /\ e[3] # "" /\ last.op = "PasswordCheck" /\ d = "open"
            /\ itemPath(last.col) = e[2]) =>
               (last.err = "ok" <=> last.arg = <<e[3]>>)

C29_PathErrors ==
    [][(last'.op \in {"New", "Bootstrap", "Clean"} /\ fs \in {"file", "forbidden"}) =>
          (last'.err # "ok" /\ fs' = fs /\ store' = store)]_vars

\* the segments of a path once its dot segments are removed (RFC 3986, 5.2.4): the
\* path two IRIs must share to name the same resource
RECURSIVE RemoveDotSegments(_, _)
RemoveDotSegments(done, segs) ==
    IF segs = <<>> THEN done
    ELSE IF segs[1] \in {"", "."} THEN RemoveDotSegments(done, Tail(segs))
    ELSE IF segs[1] = ".."
         THEN RemoveDotSegments(SubSeq(done, 1, Len(done) - 1), Tail(segs))
    ELSE RemoveDotSegments(Append(done, segs[1]), Tail(segs))

\* C30: two IRIs with the same host whose paths differ, even when empty and dot
\* segments are not counted as a difference, never have the same key prefix.
C30_PrefixCollisionFree ==
    (/\ last.op = "itemPath"
     /\ last.col.path[1] = GetLink(last.it).path[1]
     /\ RemoveDotSegments(<<>>, Tail(last.col.path))
            # RemoveDotSegments(<<>>, Tail(GetLink(last.it).path)))
    => last.res[1] # last.res[2]

\* no goroutine is inside an AddTo call
Quiet == \A p \in Procs : calls[p].pc \in {"idle", "done"}

\* C31: once the AddTo calls that goroutines made on a collection have all returned,
\* the IRI of every call that returned without error is in the stored list of the
\* collection, and the list holds no IRI twice.
C31_ConcurrentAddTo ==
    Quiet =>
        /\ \A p \in Procs :
               (calls[p].pc = "done" /\ calls[p].err = "ok")
                   => Contains(StoredIRIs(store, calls[p].col), GetLink(calls[p].it))
        /\ \A k \in DOMAIN store :
               store[k].kind = "list" =>
                   \A i, j \in 1..Len(store[k].iris) :
                       i # j => ~Equals(store[k].iris[i], store[k].iris[j])

\* C32: the handle New returns has no open engine and two log functions; Close
\* returns without error on a handle that was never opened and on one that is closed
\* already, and leaves no engine open; and on a handle that went from New through
\* Open and Close only in that order, Open after Close returns without error with the
\* engine open.
C32_Lifecycle ==
    [][/\ (last.op = "New" => (d = "nil" /\ last.arg[1] # "nil" /\ last.arg[2] # "nil"))
       /\ (last'.op = "Close" => (last'.err = "ok" /\ d' # "open"))
       /\ (last.op = "Close" /\ ~leaked /\ last'.op = "Open")
              => (last'.err = "ok" /\ d' = "open")]_vars

\* Open has succeeded a second time, after a Close that followed the first
C32_Witness ==
    /\ last.op = "Open"
    /\ last.err = "ok"
    /\ d = "open"
    /\ Life("reopened") \in okDone

\* what Load returns on the one store state s
LoadOn(s, iri) == loadFromPath(s, "open", iri, IsItemIRI(iri), MaxDeref)

SameAs(r, err, res) == r.err = err /\ r.col = res

\* C33: a Load of a collection that returns while other goroutines commit returns
\* what Load returns on one of the states the store went through during the call.
C33_LoadOneSnapshot ==
    [][(/\ \E p \in Procs : calls[p].pc \in {"lopened", "lsnap"} /\ calls'[p].pc = "done"
        /\ last'.op = "Load"
        /\ last'.err \in {"ok", "NotFound"})
       => \E e \in okDone : SameAs(LoadOn(e[2], last'.col), last'.err, last'.res)]_vars

\* the stored items of the IRIs of a list that have one, in list order
RECURSIVE ExistingMembers(_, _)
ExistingMembers(s, iris) ==
    IF iris = <<>> THEN <<>>
    ELSE (IF Has(s, getObjectKey(itemPath(iris[1]))) THEN <<s[getObjectKey(itemPath(iris[1]))]>> ELSE <<>>)
         \o ExistingMembers(s, Tail(iris))

\* the IRIs of a list that have no stored item
Dangling(s, iris) == {k \in 1..Len(iris) : ~Has(s, getObjectKey(itemPath(iris[k])))}

\* C34: a Load of an owned collection whose stored list names IRIs without a stored
\* item returns without error, and returns the stored items of the other IRIs of the
\* list, in list order, and no more.
C34_DanglingMembersOmitted ==
    (/\ last.op = "Load"
     /\ ValidCollectionIRI(itemPath(last.col))
     /\ Has(store, getObjectKey(itemPath(last.col)))
     /\ store[getObjectKey(itemPath(last.col))].kind = "list"
     /\ Dangling(store, StoredIRIs(store, last.col)) # {})
    => (/\ last.err = "ok"
        /\ last.res = ExistingMembers(store, StoredIRIs(store, last.col)))

----------------------------------------------------------------------------
(* Access records whose refresh tokens name one another: every grant       *)
(* replaces an earlier one, so the links may close a cycle.                *)

\* the calls of loadTxnAccess one load makes: the record asked for and, with
\* loadDeps, the one its refresh token names, which is loaded without
RECURSIVE loadTxnAccessCalls(_, _, _)
loadTxnAccessCalls(s, token, loadDeps) ==
    IF ~Has(s, accessPath(token)) THEN 1
    ELSE IF loadDeps /\ s[accessPath(token)].RefreshToken # ""
    THEN 1 + loadTxnAccessCalls(s, s[accessPath(token)].RefreshToken, FALSE)
    ELSE 1

NextCycle ==
    \/ Open
    \/ Close
    \/ CreateClient("c1", Secret1)
    \/ \E e \in Expiry : SaveAuthorize("a1", "c1", e)
    \/ \E t \in Tokens, p \in Tokens \cup {""} : SaveAccess(t, "", "c1", "a1", p, "valid")
    \/ \E t \in Tokens : LoadAccess(t)
    \/ \E code \in Codes : LoadAuthorize(code)

SpecCycle == Init /\ [][NextCycle]_vars

\* C36: LoadAccess returns for every store content, also when the refresh
\* tokens of the access records name themselves or one another in a cycle: it
\* makes at most two calls of loadTxnAccess, and the linked access record it
\* returns carries neither an authorization nor a further access record.
C36_LoadAccessOneLevel ==
    (last.op = "LoadAccess" /\ d = "open")
        => /\ loadTxnAccessCalls(store, last.arg[1], TRUE) <= 2
           /\ last.err \in {"ok", "NotFound"}
           /\ (last.err = "ok" /\ last.res[1].AccessData # <<>>)
                  => /\ last.res[1].AccessData[1].AccessToken = last.res[1].RefreshToken
                     /\ last.res[1].AccessData[1].AuthorizeData = <<>>
                     /\ last.res[1].AccessData[1].AccessData = <<>>

\* a load of t1 while t1 and t2 name each other as their refresh tokens
C36_Witness ==
    /\ last.op = "LoadAccess" /\ last.err = "ok" /\ last.arg = <<"t1">>
    /\ d = "open"
    /\ Has(store, accessPath("t2"))
    /\ store[accessPath("t1")].RefreshToken = "t2"
    /\ store[accessPath("t2")].RefreshToken = "t1"
    /\ last.res[1].AccessData # <<>>
    /\ last.res[1].AuthorizeData # <<>>

\* C37: LoadAuthorize of a stored authorization code that has not expired and
\* names a client loads that client again: the data it returns carry the
\* stored client record of that id, with its secret, and it returns no data
\* only when no client is stored under the id.
C37_LoadAuthorizeReloadsClient ==
    (/\ last.op = "LoadAuthorize" /\ d = "open" /\ last.arg # <<"">>
     /\ Has(store, authorizePath(last.arg[1]))
     /\ ~store[authorizePath(last.arg[1])].Expired
     /\ store[authorizePath(last.arg[1])].Client # "")
        => IF Has(store, clientPath(store[authorizePath(last.arg[1])].Client))
           THEN /\ last.err = "ok"
                /\ last.res[1].Client
                       = loadRawClient(
                             store[clientPath(store[authorizePath(last.arg[1])].Client)]).c
                /\ last.res[1].Client[1].Secret
                       = store[clientPath(store[authorizePath(last.arg[1])].Client)].Secret
           ELSE last.err # "ok" /\ last.res = <<>>

\* an authorization loaded with the secret of its stored client
C37_Witness ==
    /\ last.op = "LoadAuthorize" /\ last.err = "ok" /\ d = "open"
    /\ ~store[authorizePath(last.arg[1])].Expired
    /\ last.res[1].Client = <<DefaultClient("c1", Secret1)>>

----------------------------------------------------------------------------
(* Save and the value the caller hands it: actors whose inbox is an IRI, an *)
(* embedded collection, or an IRI whose key the engine refuses.             *)

LongInbox == IRI(<<"h", "a", LongSeg>>, "")

SaveArgs ==
    {Actor(Person, <<PersonInbox>>), Actor(Person, <<OrderedCollection(PersonInbox)>>),
     Actor(Person, <<LongInbox>>), Actor(Person, <<>>),
     Object(Note1, <<>>), Object(Note1, <<OrderedCollection(PersonInbox)>>), BareIRI(Note1)}

NextSave ==
    \/ Open
    \/ Close
    \/ \E it \in SaveArgs : Save(it)
    \/ \E it \in {BareIRI(Note1), Object(Note2, <<>>)} : AddTo(PersonInbox, it)
    \/ \E iri \in {Person, PersonInbox} : Load(iri, "none")

SpecSave == Init /\ [][NextSave]_vars

\* C38: Save leaves the item it was handed as it was and returns an item equal
\* to it: the collection fields of the owner (inbox and the like for an actor,
\* replies and the like for an object) hold after the call what they held
\* before, also when a sub-collection could not be created.
C38_SaveLeavesItem ==
    (last.op = "Save" /\ last.err # "panic") => last.res = <<last.it>>

\* C39: an item-store call leaves the handle as open or as closed as it found
\* it: called on an open handle it returns with the handle open, and it opens
\* no handle that was not open.
C39_ItemOpsKeepHandle ==
    [][(last'.op \in ItemOps) => ((d' = "open") <=> (d = "open"))]_vars

\* C40: PasswordSet for an IRI with a path, with an empty password, nil or of
\* length zero, on the open handle fails with the error for a bad argument and
\* leaves the metadata of the IRI as they were, so that the password set before
\* still passes PasswordCheck.
C40_EmptyPasswordRefused ==
    [][(/\ last'.op = "PasswordSet" /\ d = "open" /\ last'.arg[1] \in {"", NilPw}
        /\ itemPath(last'.col) # <<"">>)
       => /\ last'.err = "Err"
          /\ store' = store
          /\ \A e \in okDone : e[1] = "Pw" => e \in okDone']_vars

====
